---- MODULE Spec2Model ----
(***************************************************************************)
(* The management plane of the n3n supernode (src/src/management.c) and    *)
(* the startup and shutdown paths of its main program                      *)
(* (src/apps/supernode.c).                                                 *)
(*                                                                         *)
(* Text is modelled as sequences of one-character strings; the two control *)
(* bytes of a JSON text sequence are the tokens "RS" (0x1E) and "LF".      *)
(***************************************************************************)
EXTENDS Integers, Sequences, FiniteSets, TLC

VARIABLES
    keep_running,            \* supernode.c: static bool keep_running
    called,                  \* term_handler: static int called
    pstate,                  \* where main is: "config", .. | "loop" | "returned" (loop left)
                             \*   | "exited" (exit, _exit) | "aborted"
    sss_node,                \* supernode.c: the fields of sss_node that startup sets
    start,                   \* startup bookkeeping: build flag, steps done, exit code,
                             \*   the latest option and the number of options read
    traceLevel,              \* the logging verbosity (getTraceLevel/setTraceLevel)
    communities,             \* the allowed-community table as last loaded
    mgmt_event_subscribers,  \* management.c: one socket (or -1) per topic
    slots,                   \* the connection slot table: conn->fd per slot
    open,                    \* descriptors currently open in the process
    signals,                 \* history: keep_running as the first two signals found it
    last,                    \* what the latest step ran and the reply it rendered
    writes,                  \* what the latest step wrote to subscriber sockets
    clock,                   \* the time of the loop, in seconds
    next_sweep,              \* when the sweeper runs next
    comm_table,              \* the communities by name, each with its peer table;
                             \*   the federation is one of them
    he_window,               \* the replay window of each community with header encryption
    stats,                   \* the counters sn_fwd, tx_sup_broadcast, sn_reg_nak
    heard,                   \* history: the latest datagram or timer and what it led to
    dumped,                  \* history: what the latest SIGHUP handler read
    pages,                   \* the static pages: the send position of each, and the
                             \*   reply of each connection with what its client got
    hungup                   \* the open descriptors whose far end has hung up

vars == <<keep_running, called, pstate, traceLevel, communities,
          mgmt_event_subscribers, slots, open, signals, last, writes,
          sss_node, start, clock, next_sweep, comm_table, he_window, stats, heard,
          dumped, pages, hungup>>

\* the state of the registration and forwarding engine
engine == <<clock, next_sweep, comm_table, he_window, stats, heard, dumped,
            pages>>

\* what the event loop leaves alone
startup == <<sss_node, start>>

\* what startup leaves alone
mgmt == <<keep_running, called, communities, mgmt_event_subscribers, slots,
          open, signals, last, writes, engine, hungup>>

-----------------------------------------------------------------------------
(* Bounds of the model                                                     *)

MaxFd == 2          \* descriptors 1..MaxFd can be handed out by accept()
LongLen == 200      \* length of the oversized string used as params
MaxOpts == 2        \* options on the command line
MaxNow == 3         \* the clock stops here
MaxNonce == 3       \* nonces 0..MaxNonce of encrypted headers
MaxStat == 1        \* a counter stops here
MaxConn == 6        \* descriptors 1..MaxConn for the clients of the slot table
PageChunks == 2     \* a static page is sent in at most this many parts
MaxSent == 3        \* a client is sent parts until it has this many

(* Program constants                                                       *)

NrSlots == 5        \* slots_malloc(5)
EventBufSize == 200 \* char buf_space[200]

Fds == 1..MaxFd
NoFd == -1

-----------------------------------------------------------------------------
(* Text helpers                                                            *)

\* n copies of the character c
Rep(c, n) == [i \in 1..n |-> c]

IsPrefix(m, s) == Len(s) >= Len(m) /\ SubSeq(s, 1, Len(m)) = m

Digit(d) == CASE d = 0 -> "0" [] d = 1 -> "1" [] d = 2 -> "2" [] d = 3 -> "3"
              [] d = 4 -> "4" [] d = 5 -> "5" [] d = 6 -> "6" [] d = 7 -> "7"
              [] d = 8 -> "8" [] d = 9 -> "9"

RECURSIVE UDec(_)
UDec(n) == IF n < 10 THEN <<Digit(n)>> ELSE UDec(n \div 10) \o <<Digit(n % 10)>>

\* printf("%i") and printf("%u") of a small value
FmtInt(n) == IF n < 0 THEN <<"-">> \o UDec(-n) ELSE UDec(n)

\* the members of a finite set, one after the other
RECURSIVE SeqOf(_)
SeqOf(S) == IF S = {} THEN <<>>
            ELSE LET x == CHOOSE y \in S : TRUE IN <<x>> \o SeqOf(S \ {x})

-----------------------------------------------------------------------------
(* Event topics and their renderers                                        *)

N3N_EVENT_DEBUG == "debug"
N3N_EVENT_TEST == "test"
N3N_EVENT_PEER == "peer"
Topics == {N3N_EVENT_DEBUG, N3N_EVENT_TEST, N3N_EVENT_PEER}

\* a const char * that may be NULL
NullStr == [isnull |-> TRUE, s |-> <<>>]
Str(s) == [isnull |-> FALSE, s |-> s]

\* printf("%s"): the C libraries the supernode is built against print a
\* NULL string argument as the text (null)
FmtStr(p) == IF p.isnull THEN <<"(", "n", "u", "l", "l", ")">> ELSE p.s

EvTestHead ==
    <<"RS", "{", "\"", "e", "v", "e", "n", "t", "\"", ":", "\"", "t", "e",
      "s", "t", "\"", ",", "\"", "p", "a", "r", "a", "m", "s", "\"", ":">>

EvPeerHead ==
    <<"RS", "{", "\"", "e", "v", "e", "n", "t", "\"", ":", "\"", "p", "e",
      "e", "r", "\"", ",", "\"", "a", "c", "t", "i", "o", "n", "\"", ":">>

EvPeerMac ==
    <<",", "\"", "m", "a", "c", "a", "d", "d", "r", "\"", ":", "\"">>

EvPeerSock ==
    <<"\"", ",", "\"", "s", "o", "c", "k", "a", "d", "d", "r", "\"", ":",
      "\"">>

EvTail ==
    <<"}", "LF">>

event_debug(data0, data1) == <<>>

event_test(data0, data1) == EvTestHead \o FmtStr(data1.params) \o EvTail

\* the socket address is left out
event_peer_without_sock(data0, data1) ==
    EvPeerHead \o FmtInt(data0) \o EvPeerMac \o data1.mac
               \o EvPeerSock \o <<"\"">> \o EvTail

event_peer(data0, data1) ==
    EvPeerHead \o FmtInt(data0) \o EvPeerMac \o data1.mac
               \o EvPeerSock \o data1.sock \o <<"\"">> \o EvTail

\* mgmt_events[topic].func
mgmt_events(topic, data0, data1) ==
    CASE topic = N3N_EVENT_DEBUG -> event_debug(data0, data1)
      [] topic = N3N_EVENT_TEST -> event_test(data0, data1)
      [] topic = N3N_EVENT_PEER -> event_peer(data0, data1)

\* What a strbuf of the given capacity holds after one sb_printf of text
\* into it when empty.  Text that does not fit (with its NUL) is either cut
\* to the capacity or not committed at all: mode chooses.
SbOverflowModes == {"truncate", "discard"}
sb_printf(capacity, text, mode) ==
    IF Len(text) < capacity THEN text
    ELSE IF mode = "truncate" THEN SubSeq(text, 1, capacity - 1)
    ELSE <<>>

\* sb_write(fd, buf, 0, -1): a write of zero bytes transmits nothing
sb_write(fd, buf) ==
    IF buf = <<>> THEN <<>> ELSE <<[fd |-> fd, kind |-> "event", data |-> buf]>>

\* if( sub != -1 ) sb_write(sub, ..); if( debug != -1 ) sb_write(debug, ..)
PostBuf(sub, debug, buf) ==
    (IF sub # NoFd THEN sb_write(sub, buf) ELSE <<>>)
    \o (IF debug # NoFd THEN sb_write(debug, buf) ELSE <<>>)

PostBufToTopicOnly(sub, debug, buf) ==
    IF sub # NoFd THEN sb_write(sub, buf) ELSE <<>>

mgmt_event_post_topic_only(subs, topic, data0, data1, mode) ==
    IF subs[topic] = NoFd /\ subs[N3N_EVENT_DEBUG] = NoFd
    THEN <<>>
    ELSE PostBufToTopicOnly(subs[topic], subs[N3N_EVENT_DEBUG],
                 sb_printf(EventBufSize, mgmt_events(topic, data0, data1), mode))

\* mgmt_event_post: the writes it makes, in order
mgmt_event_post(subs, topic, data0, data1, mode) ==
    IF subs[topic] = NoFd /\ subs[N3N_EVENT_DEBUG] = NoFd
    THEN <<>>
    ELSE PostBuf(subs[topic], subs[N3N_EVENT_DEBUG],
                 sb_printf(EventBufSize, mgmt_events(topic, data0, data1), mode))

EventHeader == <<"HTTP/1.1 200 event\r\nContent-Type: application/json\r\n\r\n">>

ReplacingNotice ==
    <<"RS", "\"", "r", "e", "p", "l", "a", "c", "i", "n", "g", "\"", "LF">>

-----------------------------------------------------------------------------
(* Replies                                                                 *)

\* generate_http_headers: the status line carries the code that was passed
Reply(status, ctype, body) == [status |-> status, ctype |-> ctype, body |-> body]

NoReply == Reply(0, "-", [kind |-> "none", id |-> <<>>, code |-> 0, val |-> <<>>])

\* jsonrpc_error: {"jsonrpc":"2.0","id":"<id>","error":{"code":..,"message":..}}
jsonrpc_error(id, code, message) ==
    Reply(code, "application/json",
          [kind |-> "error", id |-> id, code |-> code, val |-> <<message>>])

\* jsonrpc_result_head .. jsonrpc_result_tail(conn, 200)
jsonrpc_result(id, val) ==
    Reply(200, "application/json",
          [kind |-> "result", id |-> id, code |-> 0, val |-> val])

RECURSIVE Pad5(_)
Pad5(d) == IF Len(d) >= 5 THEN d ELSE Pad5(<<"0">> \o d)

\* printf("%u") of an int passed as uint32_t: a negative n prints as
\* 2^32 + n = 42949 * 10^5 + (67296 + n)
FmtU32(n) ==
    IF n >= 0 THEN UDec(n)
    ELSE UDec(42949 + ((67296 + n) \div 100000)) \o Pad5(UDec((67296 + n) % 100000))

jsonrpc_1uint(id, result) == jsonrpc_result(id, FmtU32(result))

render_error ==
    Reply(404, "text/plain",
          [kind |-> "text", id |-> <<>>, code |-> 0, val |-> <<"api error\n">>])

render_todo_page ==
    Reply(501, "text/plain",
          [kind |-> "text", id |-> <<>>, code |-> 0, val |-> <<"TODO\n">>])

render_index_page ==
    Reply(200, "text/html",
          [kind |-> "text", id |-> <<>>, code |-> 0, val |-> <<"management_index">>])

render_script_page ==
    Reply(200, "text/javascript",
          [kind |-> "text", id |-> <<>>, code |-> 0, val |-> <<"management_script">>])

\* the two static buffers and the parts of their text
StaticPages == {"management_index", "management_script"}
PageText(buf) == [k \in 1..PageChunks |-> <<buf, k>>]

Idle == [reply |-> "-", got |-> <<>>, sending |-> FALSE]

PagesAtStart ==
    [rd_pos |-> [buf \in StaticPages |-> 0],
     conn |-> [i \in 1..NrSlots |-> Idle]]

\* conn->reply = &management_index (or &management_script): the reply of
\* the connection is the static buffer itself, not a copy
WithReply(pg, i, buf) ==
    [pg EXCEPT !.conn[i] = [reply |-> buf, got |-> <<>>, sending |-> TRUE]]

\* conn_write of the connection of slot i when the socket takes k parts:
\* the parts are taken from the position of the reply buffer, the position
\* moves on, and at the end of the buffer the reply is done and the
\* position is back at the start
conn_write(pg, i, k) ==
    [pg EXCEPT !.conn[i].got =
                   @ \o SubSeq(PageText(pg.conn[i].reply),
                               pg.rd_pos[pg.conn[i].reply] + 1,
                               IF pg.rd_pos[pg.conn[i].reply] + k < PageChunks
                               THEN pg.rd_pos[pg.conn[i].reply] + k
                               ELSE PageChunks),
               !.conn[i].sending = pg.rd_pos[pg.conn[i].reply] + k < PageChunks,
               !.rd_pos[pg.conn[i].reply] =
                   IF @ + k < PageChunks THEN @ + k ELSE 0]

-----------------------------------------------------------------------------
(* Parsing of set_verbose's argument                                       *)

IsSpace(c) == c \in {" ", "\t"}

\* the position of the first character of s for which Stop holds (Len(s) + 1
\* when there is none)
FirstPos(s, Stop(_)) ==
    LET hits == {i \in 1..Len(s) : Stop(s[i])}
    IN  IF hits = {} THEN Len(s) + 1
        ELSE CHOOSE i \in hits : \A j \in hits : i <= j

SkipSpace(s) ==
    LET NotSpace(c) == ~IsSpace(c) IN SubSeq(s, FirstPos(s, NotSpace), Len(s))

UpToDelim(s) ==
    LET Delim(c) == c \in {",", "]"} IN SubSeq(s, 1, FirstPos(s, Delim) - 1)

\* json_extract_val: the text of the first value of the list
json_extract_val(s) == UpToDelim(SkipSpace(s))

DigitVal(c) ==
    CASE c = "0" -> 0 [] c = "1" -> 1 [] c = "2" -> 2 [] c = "3" -> 3
      [] c = "4" -> 4 [] c = "5" -> 5 [] c = "6" -> 6 [] c = "7" -> 7
      [] c = "8" -> 8 [] c = "9" -> 9
      [] c \in {"a", "A"} -> 10 [] c \in {"b", "B"} -> 11
      [] c \in {"c", "C"} -> 12 [] c \in {"d", "D"} -> 13
      [] c \in {"e", "E"} -> 14 [] c \in {"f", "F"} -> 15
      [] OTHER -> 99

RECURSIVE Accum(_, _, _)
Accum(s, base, acc) ==
    IF s # <<>> /\ DigitVal(Head(s)) < base
    THEN Accum(Tail(s), base, acc * base + DigitVal(Head(s)))
    ELSE acc

\* the digits of a numeral whose sign has been read: 0x.. is hexadecimal,
\* 0.. octal, anything else decimal
StrtoulDigits(s) ==
    IF Len(s) >= 3 /\ s[1] = "0" /\ s[2] \in {"x", "X"} /\ DigitVal(s[3]) < 16
    THEN Accum(SubSeq(s, 3, Len(s)), 16, 0)
    ELSE IF s # <<>> /\ s[1] = "0" THEN Accum(s, 8, 0)
    ELSE Accum(s, 10, 0)

StrtoulSigned(s) ==
    IF s # <<>> /\ Head(s) = "-" THEN -StrtoulDigits(Tail(s))
    ELSE IF s # <<>> /\ Head(s) = "+" THEN StrtoulDigits(Tail(s))
    ELSE StrtoulDigits(s)

\* (int)strtoul(s, NULL, 0): the value setTraceLevel receives.  The numerals
\* of the model stay below 2^31, where the conversions unsigned long -> int
\* of a value v and of its negation 2^64 - v give v and -v.
strtoul(s) == StrtoulSigned(SkipSpace(s))

-----------------------------------------------------------------------------
(* JSON-RPC methods.  A method handler is given the request id and params  *)
(* and nd, the choices the handler does not control; it yields the new     *)
(* values of the state it may touch, the reply and the event writes.       *)

Outcome(kr, tl, comm, reply, wr) ==
    [kr |-> kr, tl |-> tl, comm |-> comm, reply |-> reply, writes |-> wr]

ReadOnly(reply) == Outcome(keep_running, traceLevel, communities, reply, <<>>)

jsonrpc_get_verbose(id, params, nd) == ReadOnly(jsonrpc_1uint(id, traceLevel))

\* if(*arg1 == '"') arg1++
SkipQuote(arg1) == IF arg1 # <<>> /\ Head(arg1) = "\"" THEN Tail(arg1) ELSE arg1

SetLevelRepliesOld(id, level) ==
    Outcome(keep_running, level, communities, jsonrpc_1uint(id, traceLevel), <<>>)

\* setTraceLevel(level); jsonrpc_get_verbose(...)
SetLevel(id, level) ==
    Outcome(keep_running, level, communities, jsonrpc_1uint(id, level), <<>>)

jsonrpc_set_verbose_unchecked(id, params, nd) ==
    SetLevel(id, strtoul(SkipQuote(json_extract_val(
        IF params.s = <<>> THEN <<>> ELSE Tail(params.s)))))

jsonrpc_set_verbose(id, params, nd) ==
    IF params.isnull
    THEN ReadOnly(jsonrpc_error(id, 400, "missing param"))
    ELSE IF params.s = <<>> \/ Head(params.s) # "["
    THEN ReadOnly(jsonrpc_error(id, 400, "expecting array"))
    ELSE SetLevel(id, strtoul(SkipQuote(json_extract_val(Tail(params.s)))))

jsonrpc_stop_flag_untouched(id, params, nd) ==
    ReadOnly(jsonrpc_1uint(id, IF keep_running THEN 1 ELSE 0))

\* *eee->keep_running = false; jsonrpc_1uint(id, conn, *eee->keep_running)
StopWith(id, kr) ==
    Outcome(kr, traceLevel, communities, jsonrpc_1uint(id, IF kr THEN 1 ELSE 0), <<>>)

jsonrpc_stop(id, params, nd) == StopWith(id, FALSE)

\* The read-only queries render engine state that this model does not hold
Rendered(name) == <<"<" \o name \o ">">>

\* the name a community is shown under
ShownName(community) ==
    IF community.is_federation THEN <<"-", "/", "-">> ELSE community.community

BoolInt(b) == IF b THEN 1 ELSE 0

\* {"community":"%s","purgeable":%i,"is_federation":%i,"ip4addr":"%s"},
\* the subnet of the community is not held by this model
CommunityEntry(community) ==
    <<"{", "\"", "c", "o", "m", "m", "u", "n", "i", "t", "y", "\"", ":", "\"">> \o ShownName(community)
    \o <<"\"", ",", "\"", "p", "u", "r", "g", "e", "a", "b", "l", "e", "\"", ":">> \o FmtInt(BoolInt(community.purgeable))
    \o <<",", "\"", "i", "s", "_", "f", "e", "d", "e", "r", "a", "t", "i", "o", "n", "\"", ":">> \o FmtInt(BoolInt(community.is_federation))
    \o <<",", "\"", "i", "p", "4", "a", "d", "d", "r", "\"", ":", "\"">> \o Rendered("ip4addr")
    \o <<"\"", "}", ",">>

\* the entries of the communities of the table, one after the other
RECURSIVE CommunityEntries(_, _)
CommunityEntries(table, names) ==
    IF names = <<>> THEN <<>>
    ELSE CommunityEntry(table[Head(names)]) \o CommunityEntries(table, Tail(names))

\* the hack: back up over the final ','
BackUp(str) ==
    IF str # <<>> /\ str[Len(str)] = "," THEN SubSeq(str, 1, Len(str) - 1) ELSE str

\* no table at all is taken for an edge, which shows its own community
\* (and refuses with 403 if it has header encryption)
EdgeCommunities(id) ==
    jsonrpc_result(id, <<"[", "{", "\"", "c", "o", "m", "m", "u", "n", "i", "t", "y", "\"", ":", "\"">> \o Rendered("community_name") \o <<"\"", "}", "]">>)

\* the final ',' is left where it is
jsonrpc_get_communities_keeps_comma(id, params, nd) ==
    ReadOnly(IF DOMAIN comm_table = {} THEN EdgeCommunities(id)
             ELSE jsonrpc_result(id,
                    <<"[">> \o CommunityEntries(comm_table, SeqOf(DOMAIN comm_table))
                    \o <<"]">>))

\* the supernode's view: HASH_ITER over the communities, in the order the
\* table yields them
jsonrpc_get_communities(id, params, nd) ==
    ReadOnly(IF DOMAIN comm_table = {} THEN EdgeCommunities(id)
             ELSE jsonrpc_result(id,
                    BackUp(<<"[">> \o CommunityEntries(comm_table,
                                                       SeqOf(DOMAIN comm_table)))
                    \o <<"]">>))
jsonrpc_get_edges(id, params, nd) ==
    ReadOnly(jsonrpc_result(id, Rendered("edges")))
jsonrpc_get_info(id, params, nd) ==
    ReadOnly(jsonrpc_result(id, Rendered("info")))
\* the entry of the registrations: {"type":"sn_reg","tx_pkt":%u,"nak":%u},
SnRegEntry(sn_reg, sn_reg_nak) ==
    <<"{", "\"", "t", "y", "p", "e", "\"", ":", "\"", "sn_reg", "\"", ",",
      "\"", "tx_pkt", "\"", ":">> \o sn_reg
    \o <<",", "\"", "n", "a", "k", "\"", ":">> \o FmtU32(sn_reg_nak) \o <<"}", ",">>

\* the entries before sn_reg, then sn_reg with the counter sn_reg_nak, then
\* the entries after it
jsonrpc_get_packetstats(id, params, nd) ==
    ReadOnly(jsonrpc_result(id, Rendered("packetstats")
                                \o SnRegEntry(Rendered("sn_reg"), stats.sn_reg_nak)
                                \o Rendered("sn_errors")))
jsonrpc_get_supernodes(id, params, nd) ==
    ReadOnly(jsonrpc_result(id, Rendered("supernodes")))
jsonrpc_get_timestamps(id, params, nd) ==
    ReadOnly(jsonrpc_result(id, Rendered("timestamps")))
jsonrpc_help(id, params, nd) ==
    ReadOnly(jsonrpc_result(id, Rendered("methods")))
jsonrpc_help_events(id, params, nd) ==
    ReadOnly(jsonrpc_result(id, Rendered("topics")))

jsonrpc_post_test(id, params, nd) ==
    Outcome(keep_running, traceLevel, communities,
            jsonrpc_result(id, <<"\"", "s", "e", "n", "t", "\"", "LF">>),
            mgmt_event_post(mgmt_event_subscribers, N3N_EVENT_TEST, -1,
                            [params |-> params], nd.mode))

\* load_allowed_sn_community re-reads the community file, whatever it holds now
CommunityFiles == {{}, {"acme"}}
load_allowed_sn_community(nd) == [table |-> nd.file, ok |-> 0]

Reloaded(id, r) ==
    Outcome(keep_running, traceLevel, r.table, jsonrpc_result(id, FmtInt(r.ok)), <<>>)

jsonrpc_reload_communities(id, params, nd) ==
    Reloaded(id, load_allowed_sn_community(nd))

jsonrpc_methods ==
    <<"get_communities", "get_edges", "get_info", "get_packetstats",
      "get_supernodes", "get_timestamps", "get_verbose", "help", "help.events",
      "post.test", "reload_communities", "set_verbose", "stop">>

\* jsonrpc_methods[i].func
MethodFunc(i, id, params, nd) ==
    CASE i = 1 -> jsonrpc_get_communities(id, params, nd)
      [] i = 2 -> jsonrpc_get_edges(id, params, nd)
      [] i = 3 -> jsonrpc_get_info(id, params, nd)
      [] i = 4 -> jsonrpc_get_packetstats(id, params, nd)
      [] i = 5 -> jsonrpc_get_supernodes(id, params, nd)
      [] i = 6 -> jsonrpc_get_timestamps(id, params, nd)
      [] i = 7 -> jsonrpc_get_verbose(id, params, nd)
      [] i = 8 -> jsonrpc_help(id, params, nd)
      [] i = 9 -> jsonrpc_help_events(id, params, nd)
      [] i = 10 -> jsonrpc_post_test(id, params, nd)
      [] i = 11 -> jsonrpc_reload_communities(id, params, nd)
      [] i = 12 -> jsonrpc_set_verbose(id, params, nd)
      [] i = 13 -> jsonrpc_stop(id, params, nd)

\* jsonrpc_parse: 0 when the body is a JSON-RPC object, its fields extracted
jsonrpc_parse(body) == IF body.kind = "json" THEN 0 ELSE -1

\* char idbuf[10]
IdBufSize == 10

\* what a reader of the string finds from idbuf[9] on when strncpy wrote no
\* NUL: nothing if the byte left on the stack happens to be 0, else the bytes
\* that follow up to the first 0 (written "?")
StackTails == { <<>>, <<"?">> }

\* strncpy(idbuf, json.id, sizeof(idbuf)-1): at most 9 characters are copied,
\* and the copy is NUL-padded only if the id is shorter than 9.  idbuf is not
\* initialised, so for a longer id the string the handlers print is the 9
\* copied characters followed by whatever the stack holds.
idbuf(id, tail) ==
    IF Len(id) < IdBufSize - 1 THEN id
    ELSE SubSeq(id, 1, IdBufSize - 1) \o tail

\* the index at which the method search loop stops (nr_handlers + 1: no match)
MethodIndex(method) ==
    LET nr_handlers == Len(jsonrpc_methods)
        hits == {i \in 1..nr_handlers : jsonrpc_methods[i] = method}
    IN  IF hits = {} THEN nr_handlers + 1
        ELSE CHOOSE i \in hits : \A j \in hits : i <= j

Ran(name, out) == [ran |-> name, out |-> out]

\* if( i >= nr_handlers ) goto error; else jsonrpc_methods[i].func(...)
MethodCall(i, req, nd) ==
    IF i > Len(jsonrpc_methods)
    THEN Ran("-", ReadOnly(render_error))
    ELSE Ran(jsonrpc_methods[i],
             MethodFunc(i, idbuf(req.body.id, nd.tail), req.body.params, nd))

MethodCallLastOnMiss(i, req, nd) ==
    IF i > Len(jsonrpc_methods)
    THEN Ran(jsonrpc_methods[Len(jsonrpc_methods)],
             MethodFunc(Len(jsonrpc_methods), idbuf(req.body.id, nd.tail),
                        req.body.params, nd))
    ELSE Ran(jsonrpc_methods[i],
             MethodFunc(i, idbuf(req.body.id, nd.tail), req.body.params, nd))

handle_jsonrpc_last_entry_on_miss(req, nd) ==
    IF ~req.sep \/ jsonrpc_parse(req.body) # 0
    THEN Ran("-", ReadOnly(render_error))
    ELSE MethodCallLastOnMiss(MethodIndex(req.body.method), req, nd)

\* handle_jsonrpc: req.sep says whether the request holds the blank line
\* that ends the headers
handle_jsonrpc(req, nd) ==
    IF ~req.sep
    THEN Ran("-", ReadOnly(render_error))
    ELSE IF jsonrpc_parse(req.body) # 0
    THEN Ran("-", ReadOnly(render_error))
    ELSE MethodCall(MethodIndex(req.body.method), req, nd)

-----------------------------------------------------------------------------
(* HTTP endpoints                                                          *)

api_endpoints ==
    << [match |-> <<"P", "O", "S", "T", " ", "/", "v", "1", " ">>,
        func |-> "handle_jsonrpc"],
       [match |-> <<"G", "E", "T", " ", "/", " ">>,
        func |-> "render_index_page"],
       [match |-> <<"G", "E", "T", " ", "/", "h", "e", "l", "p", " ">>,
        func |-> "render_todo_page"],
       [match |-> <<"G", "E", "T", " ", "/", "m", "e", "t", "r", "i", "c", "s", " ">>,
        func |-> "render_todo_page"],
       [match |-> <<"G", "E", "T", " ", "/", "s", "c", "r", "i", "p", "t", ".", "j", "s", " ">>,
        func |-> "render_script_page"],
       [match |-> <<"G", "E", "T", " ", "/", "s", "t", "a", "t", "u", "s", " ">>,
        func |-> "render_todo_page"],
       [match |-> <<"G", "E", "T", " ", "/", "e", "v", "e", "n", "t", "s", "/">>,
        func |-> "event_subscribe"] >>

\* the request line is compared over the first five characters only
EndpointIndexShortCompare(line) ==
    LET nr_handlers == Len(api_endpoints)
        hits == {i \in 1..nr_handlers :
                    IsPrefix(SubSeq(api_endpoints[i].match, 1, 5), line)}
    IN  IF hits = {} THEN nr_handlers + 1
        ELSE CHOOSE i \in hits : \A j \in hits : i <= j

\* the index at which the endpoint search loop stops (nr_handlers + 1: no match)
EndpointIndex(line) ==
    LET nr_handlers == Len(api_endpoints)
        hits == {i \in 1..nr_handlers : IsPrefix(api_endpoints[i].match, line)}
    IN  IF hits = {} THEN nr_handlers + 1
        ELSE CHOOSE i \in hits : \A j \in hits : i <= j

Write(fd, kind, data) == [fd |-> fd, kind |-> kind, data |-> data]

Subscribed(subs, sl, op, wr) ==
    [subs |-> subs, slots |-> sl, open |-> op, writes |-> wr]

\* the header, and the notice if a subscriber was replaced, written to fd
SubscribeWrites(fd, replacing) ==
    <<Write(fd, "header", EventHeader)>>
    \o (IF replacing THEN <<Write(fd, "notice", ReplacingNotice)>> ELSE <<>>)

\* event_subscribe with the new table subs, for the connection of slot i
\* replacing the subscriber old
SubscribeAs(subs, topic, i, old) ==
    Subscribed(subs,
               [slots EXCEPT ![i] = NoFd],
               IF old # NoFd THEN open \ {old} ELSE open,
               SubscribeWrites(subs[topic], old # NoFd))

SubscribeAsOldLeftOpen(subs, topic, i, old) ==
    Subscribed(subs, [slots EXCEPT ![i] = NoFd], open,
               SubscribeWrites(subs[topic], old # NoFd))

SubscribeAsSlotKept(subs, topic, i, old) ==
    Subscribed(subs, slots, IF old # NoFd THEN open \ {old} ELSE open,
               SubscribeWrites(subs[topic], old # NoFd))

event_subscribe_old_left_open(i, req) ==
    SubscribeAsOldLeftOpen(
        [mgmt_event_subscribers EXCEPT ![N3N_EVENT_DEBUG] = slots[i]],
        N3N_EVENT_DEBUG, i, mgmt_event_subscribers[N3N_EVENT_DEBUG])

event_subscribe_slot_kept(i, req) ==
    SubscribeAsSlotKept(
        [mgmt_event_subscribers EXCEPT ![N3N_EVENT_DEBUG] = slots[i]],
        N3N_EVENT_DEBUG, i, mgmt_event_subscribers[N3N_EVENT_DEBUG])

\* event_subscribe on the connection of slot i.  The topic is always debug
\* (the tail of the URL is not looked at); the old subscriber is closed, the
\* slot's descriptor becomes the subscriber and the slot is zeroed
\* (conn_zero); then the header and the notice are written to the
\* subscriber of the topic, which is the new one
event_subscribe(i, req) ==
    SubscribeAs([mgmt_event_subscribers EXCEPT ![N3N_EVENT_DEBUG] = slots[i]],
                N3N_EVENT_DEBUG, i, mgmt_event_subscribers[N3N_EVENT_DEBUG])

-----------------------------------------------------------------------------
(* Inputs                                                                  *)

LongParams == Str(<<"[", "\"">> \o Rep("x", LongLen) \o <<"\"", "]">>)

ParamsSet ==
    { NullStr,
      Str(<<"[", "3", "]">>),
      Str(<<"[", "\"", "1", "\"", "]">>),
      Str(<<"{", "}">>),
      LongParams }

ShortId == <<"1">>
Id8 == <<"a", "b", "c", "d", "e", "f", "g", "h">>
Id9 == Id8 \o <<"i">>
Id10 == Id9 \o <<"j">>
Ids == { ShortId, Id8, Id9, Id10 }

\* the id is echoed by every method alike; it varies for get_verbose
IdsFor(m) == IF m = "get_verbose" THEN Ids ELSE {ShortId}

MethodNames ==
    { jsonrpc_methods[i] : i \in 1..Len(jsonrpc_methods) }
    \cup { "Stop", "get_verbos", "" }

BodyNone == [kind |-> "none", id |-> <<>>, method |-> "-", params |-> NullStr]
BodyGarbage == [kind |-> "garbage", id |-> <<>>, method |-> "-", params |-> NullStr]
\* params are looked at by set_verbose and post.test alone
ParamsFor(m) == IF m \in {"set_verbose", "post.test"} THEN ParamsSet ELSE {NullStr}

JsonBodies ==
    { [kind |-> "json", id |-> t[1], method |-> t[2], params |-> t[3]] :
        t \in { u \in Ids \X MethodNames \X ParamsSet :
                  u[3] \in ParamsFor(u[2]) /\ u[1] \in IdsFor(u[2]) } }

Line_POST_V1 == <<"P", "O", "S", "T", " ", "/", "v", "1", " ">>
Line_Events(topic) == <<"G", "E", "T", " ", "/", "e", "v", "e", "n", "t", "s", "/">> \o topic \o <<" ">>
T_debug == <<"d", "e", "b", "u", "g">>
T_test == <<"t", "e", "s", "t">>
T_peer == <<"p", "e", "e", "r">>

OtherLines ==
    { <<"G", "E", "T", " ", "/", " ">>,
      <<"G", "E", "T", " ", "/", "h", "e", "l", "p", " ">>,
      <<"G", "E", "T", " ", "/", "m", "e", "t", "r", "i", "c", "s", " ">>,
      <<"G", "E", "T", " ", "/", "s", "c", "r", "i", "p", "t", ".", "j", "s", " ">>,
      <<"G", "E", "T", " ", "/", "s", "t", "a", "t", "u", "s", " ">>,
      <<"G", "E", "T", " ", "/", "n", "o", "t", "h", "i", "n", "g", " ">>,
      <<"G", "E", "T", " ", "/", "h", "e", "l", "p", "e", "r", " ">>,
      <<"P", "U", "T", " ", "/", "v", "1", " ">>,
      Line_Events(T_debug), Line_Events(T_test), Line_Events(T_peer) }

\* the key a request carries: none, one that is not the management
\* password, or the password
NoAuth == NullStr
WrongAuth == Str(<<"w", "r", "o", "n", "g">>)
mgmt_password == Str(<<"n", "3", "n">>)
Auths == {NoAuth, WrongAuth, mgmt_password}

MutatingMethods == {"set_verbose", "reload_communities", "stop"}

\* no handler reads the key; it varies for the mutating methods
AuthsFor(m) == IF m \in MutatingMethods THEN Auths ELSE {NoAuth}

Requests ==
    UNION { { [line |-> Line_POST_V1, sep |-> TRUE, body |-> b, auth |-> a] :
                a \in AuthsFor(b.method) } :
            b \in JsonBodies \cup {BodyGarbage} }
    \cup { [line |-> Line_POST_V1, sep |-> FALSE, body |-> BodyNone, auth |-> NoAuth] }
    \cup { [line |-> l, sep |-> TRUE, body |-> BodyNone, auth |-> NoAuth] : l \in OtherLines }

Choices == [mode : SbOverflowModes, file : CommunityFiles, tail : StackTails]

\* the choices that can make a difference to the request
ChoicesFor(req) ==
    { nd \in Choices :
        /\ (req.body.method # "reload_communities" => nd.file = {})
        /\ (req.body.params # LongParams => nd.mode = "truncate")
        /\ (Len(req.body.id) < IdBufSize - 1 => nd.tail = <<>>) }

PeerData ==
    { [mac |-> <<>>, sock |-> <<"1", ".", "2", ".", "3", ".", "4", ":", "5">>],
      [mac |-> <<"0", "2", ":", "0", "0", ":", "0", "0", ":", "0", "0", ":", "0", "0", ":", "0", "1">>,
       sock |-> <<"1", ".", "2", ".", "3", ".", "4", ":", "5">>] }

PeerActions == {0, 1}

-----------------------------------------------------------------------------
(* The request handler                                                     *)

Last(func, method, ran, reply) ==
    [func |-> func, method |-> method, ran |-> ran, reply |-> reply,
     line |-> <<>>]

\* the result r, with the request line it came from noted in the history
OfLine(r, line) == [r EXCEPT !.last.line = line]

NoLast == Last("-", "-", "-", NoReply)

Result(kr, tl, comm, subs, sl, op, wr, lst) ==
    [kr |-> kr, tl |-> tl, comm |-> comm, subs |-> subs, slots |-> sl,
     open |-> op, writes |-> wr, last |-> lst]

\* a handler that only renders a reply into the connection
Page(func, reply) ==
    Result(keep_running, traceLevel, communities, mgmt_event_subscribers,
           slots, open, <<>>, Last(func, "-", "-", reply))

FromJsonrpc(func, req, r) ==
    Result(r.out.kr, r.out.tl, r.out.comm, mgmt_event_subscribers, slots, open,
           r.out.writes, Last(func, req.body.method, r.ran, r.out.reply))

FromSubscribe(func, r) ==
    Result(keep_running, traceLevel, communities, r.subs, r.slots, r.open,
           r.writes, Last(func, "-", "-", NoReply))

\* api_endpoints[i].func(eee, conn)
EndpointFunc(func, i, req, nd) ==
    CASE func = "handle_jsonrpc" -> FromJsonrpc(func, req, handle_jsonrpc(req, nd))
      [] func = "event_subscribe" -> FromSubscribe(func, event_subscribe(i, req))
      [] func = "render_index_page" -> Page(func, render_index_page)
      [] func = "render_script_page" -> Page(func, render_script_page)
      [] func = "render_todo_page" -> Page(func, render_todo_page)

\* if( i >= nr_handlers ) render_error(..); else api_endpoints[i].func(..)
EndpointCall(e, i, req, nd) ==
    IF e > Len(api_endpoints) THEN Page("render_error", render_error)
    ELSE EndpointFunc(api_endpoints[e].func, i, req, nd)

\* mgmt_api_handler on the request read into slot i; the reply is then
\* handed to conn_write
mgmt_api_handler(i, req, nd) ==
    OfLine(EndpointCall(EndpointIndex(req.line), i, req, nd), req.line)

-----------------------------------------------------------------------------
(* Signals and the event loop                                              *)

Signalled(c, kr, ps) == [called |-> c, kr |-> kr, pstate |-> ps]

term_handler_forgets_call ==
    IF called # 0 THEN Signalled(called, keep_running, "exited")
    ELSE Signalled(called, FALSE, pstate)

\* term_handler: _exit(0) on a repeated call, else note the call and clear
\* keep_running
term_handler ==
    IF called # 0 THEN Signalled(called, keep_running, "exited")
    ELSE Signalled(1, FALSE, pstate)

\* run_sn_loop's loop condition, looked at on every wake
LoopContinues == keep_running

-----------------------------------------------------------------------------
(* Startup: the options of the command line (loadFromCLI)                  *)

N2N_COMMUNITY_SIZE == 20
N2N_EDGE_SN_HOST_SIZE == 48

\* bitwise and / or of two values of w bits
RECURSIVE BitAnd(_, _, _)
BitAnd(a, b, w) ==
    IF w = 0 THEN 0
    ELSE 2 * BitAnd(a \div 2, b \div 2, w - 1)
         + (IF a % 2 = 1 /\ b % 2 = 1 THEN 1 ELSE 0)

RECURSIVE BitOr(_, _, _)
BitOr(a, b, w) ==
    IF w = 0 THEN 0
    ELSE 2 * BitOr(a \div 2, b \div 2, w - 1)
         + (IF a % 2 = 1 \/ b % 2 = 1 THEN 1 ELSE 0)

\* An in_addr_t is kept as its four bytes in network order.  A uint32_t in
\* host order is kept as its two 16-bit halves.
INADDR_NONE == <<255, 255, 255, 255>>
INADDR_ANY == <<0, 0, 0, 0>>

\* inet_addr of a dotted quad, given as the numbers between the dots
inet_addr(q) ==
    IF Len(q) = 4 /\ \A k \in 1..4 : q[k] \in 0..255 THEN q ELSE INADDR_NONE

ntohl(b) == [hi |-> b[1] * 256 + b[2], lo |-> b[3] * 256 + b[4]]

\* a > b, unsigned
U32Gt(a, b) == a.hi > b.hi \/ (a.hi = b.hi /\ a.lo > b.lo)

\* a & ~mask
U32AndNot(a, mask) ==
    [hi |-> BitAnd(a.hi, 65535 - mask.hi, 16),
     lo |-> BitAnd(a.lo, 65535 - mask.lo, 16)]

U32Zero == [hi |-> 0, lo |-> 0]

\* the n highest of 16 bits
Mask16(n) == 65536 - 2 ^ (16 - n)

\* bitlen2mask: the bitlen highest bits set.  A bitlen above 32 is outside
\* what the function is made for; it is given the full mask here, which
\* makes no difference as both rejecting branches of the caller only break.
bitlen2mask(bitlen) ==
    [hi |-> Mask16(IF bitlen > 16 THEN 16 ELSE bitlen),
     lo |-> Mask16(IF bitlen > 32 THEN 16 ELSE IF bitlen > 16 THEN bitlen - 16 ELSE 0)]

\* what an option handler leaves: the runtime data, the trace level and,
\* for the history, whether the option's value was taken
Opt(sss, tl, applied) == [sss |-> sss, tl |-> tl, applied |-> applied]

\* the four assignments that end case 'a'
SetAutoIpNet(sss, net_min, net_max, bitlen) ==
    [sss EXCEPT !.min_auto_ip_net = [net_addr |-> ntohl(net_min), net_bitlen |-> bitlen],
                !.max_auto_ip_net = [net_addr |-> ntohl(net_max), net_bitlen |-> bitlen]]

SetAutoIpNetMinFirst(sss, net_min, net_max, bitlen) ==
    [sss EXCEPT !.min_auto_ip_net = [net_addr |-> ntohl(net_min), net_bitlen |-> bitlen]]

\* the first test of case 'a'
BadNetworkRange(net_min, net_max, mask) ==
    \/ net_min = INADDR_NONE \/ net_min = INADDR_ANY
    \/ net_max = INADDR_NONE \/ net_max = INADDR_ANY
    \/ U32Gt(ntohl(net_min), ntohl(net_max))
    \/ U32AndNot(ntohl(net_min), mask) # U32Zero
    \/ U32AndNot(ntohl(net_max), mask) # U32Zero

AutoIpChecked(sss, tl, net_min, net_max, bitlen) ==
    IF BadNetworkRange(net_min, net_max, bitlen2mask(bitlen))
    THEN Opt(sss, tl, FALSE)
    ELSE IF bitlen > 30 \/ bitlen = 0
    THEN Opt(sss, tl, FALSE)
    ELSE Opt(SetAutoIpNet(sss, net_min, net_max, bitlen), tl, TRUE)

\* the lower endpoint is stored before the range is tested
AutoIpMinFirst(sss, tl, net_min, net_max, bitlen) ==
    IF BadNetworkRange(net_min, net_max, bitlen2mask(bitlen))
          \/ bitlen > 30 \/ bitlen = 0
    THEN Opt(SetAutoIpNetMinFirst(sss, net_min, net_max, bitlen), tl, FALSE)
    ELSE Opt(SetAutoIpNet(sss, net_min, net_max, bitlen), tl, TRUE)

loadFromCLI_a_min_first(sss, tl, optarg) ==
    IF optarg.fields # 3 THEN Opt(sss, tl, FALSE)
    ELSE AutoIpMinFirst(sss, tl, inet_addr(optarg.min), inet_addr(optarg.max),
                        optarg.bits % 256)

\* case 'a'.  optarg is given by what sscanf makes of it: the number of
\* fields converted, the two addresses and the number after the slash.
\* %hhu stores that number in a uint8_t, which keeps its low 8 bits.
loadFromCLI_a(sss, tl, optarg) ==
    IF optarg.fields # 3 THEN Opt(sss, tl, FALSE)
    ELSE AutoIpChecked(sss, tl, inet_addr(optarg.min), inet_addr(optarg.max),
                       optarg.bits % 256)

\* a peer as peer_info_malloc and peer_info_init leave it: purgeable, no
\* hostname, no descriptor
Peer(sock, purgeable, ip_addr, socket_fd) ==
    [sock |-> sock, purgeable |-> purgeable, ip_addr |-> ip_addr,
     socket_fd |-> socket_fd]

peer_info_malloc(sock) == Peer(sock, TRUE, NullStr, NoFd)

peer_info_init(peer) == [peer EXCEPT !.purgeable = TRUE]

\* supernode2sock: rv 0 with the address found, -1 or -2 when the resolver
\* failed, below -2 when the argument is no host:port
Supernode2sockRvs == {0, -1, -2, -3}
supernode2sock(optarg, rv) == [resolved |-> rv = 0, name |-> optarg]

\* add_sn_to_list_by_mac_or_sock with the null MAC and SN_ADD: the peer of
\* the list that has the socket, else a new peer if one can be allocated;
\* at |-> 0 stands for NULL
AddSn(edges, sock, alloc) ==
    IF \E k \in 1..Len(edges) : edges[k].sock = sock
    THEN [edges |-> edges,
          at |-> CHOOSE k \in 1..Len(edges) : edges[k].sock = sock]
    ELSE IF alloc
    THEN [edges |-> Append(edges, peer_info_malloc(sock)), at |-> Len(edges) + 1]
    ELSE [edges |-> edges, at |-> 0]

\* strncpy(dst, src, n) into a zeroed buffer
strncpy(src, n) == SubSeq(src, 1, IF Len(src) < n THEN Len(src) ELSE n)

WithEdges(sss, edges) == [sss EXCEPT !.federation.edges = edges]

\* lines 275-289: the hostname buffer, peer_info_init, purgeable, hostname
AnchorInit(peer, optarg, sock) ==
    [peer_info_init(peer) EXCEPT
        !.purgeable = FALSE,
        !.ip_addr = Str(strncpy(optarg, N2N_EDGE_SN_HOST_SIZE - 1)),
        !.sock = sock]

\* purgeable is left as peer_info_init sets it
AnchorInitPurgeable(peer, optarg, sock) ==
    [peer_info_init(peer) EXCEPT
        !.ip_addr = Str(strncpy(optarg, N2N_EDGE_SN_HOST_SIZE - 1)),
        !.sock = sock]

Anchored(sss, tl, a, optarg, sock, nd) ==
    IF a.at = 0 THEN Opt(sss, tl, FALSE)
    ELSE IF ~nd.ip_alloc
    THEN Opt(WithEdges(sss, [a.edges EXCEPT ![a.at].ip_addr = NullStr]), tl, FALSE)
    ELSE Opt(WithEdges(sss, [a.edges EXCEPT ![a.at] = AnchorInit(@, optarg, sock)]),
             tl, TRUE)

AnchoredPurgeable(sss, tl, a, optarg, sock, nd) ==
    IF a.at = 0 THEN Opt(sss, tl, FALSE)
    ELSE IF ~nd.ip_alloc
    THEN Opt(WithEdges(sss, [a.edges EXCEPT ![a.at].ip_addr = NullStr]), tl, FALSE)
    ELSE Opt(WithEdges(sss, [a.edges EXCEPT
                                ![a.at] = AnchorInitPurgeable(@, optarg, sock)]),
             tl, TRUE)

Range(f) == {f[k] : k \in DOMAIN f}

\* a resolver failure is refused like an invalid argument
loadFromCLI_l_resolved_only(sss, tl, optarg, nd) ==
    IF Len(optarg) >= N2N_EDGE_SN_HOST_SIZE THEN Opt(sss, tl, FALSE)
    ELSE IF ":" \notin Range(optarg) THEN Opt(sss, tl, FALSE)
    ELSE IF nd.rv < 0 THEN Opt(sss, tl, FALSE)
    ELSE Anchored(sss, tl,
                  AddSn(sss.federation.edges, supernode2sock(optarg, nd.rv),
                        nd.peer_alloc),
                  optarg, supernode2sock(optarg, nd.rv), nd)

loadFromCLI_l_purgeable(sss, tl, optarg, nd) ==
    IF Len(optarg) >= N2N_EDGE_SN_HOST_SIZE THEN Opt(sss, tl, FALSE)
    ELSE IF ":" \notin Range(optarg) THEN Opt(sss, tl, FALSE)
    ELSE IF nd.rv < -2 THEN Opt(sss, tl, FALSE)
    ELSE AnchoredPurgeable(sss, tl,
                  AddSn(sss.federation.edges, supernode2sock(optarg, nd.rv),
                        nd.peer_alloc),
                  optarg, supernode2sock(optarg, nd.rv), nd)

\* case 'l'.  nd holds what the resolver and the allocator answer.
\* sss->federation is set by sn_init_defaults and is dereferenced without
\* a test by case 'F' and by main, so it is not NULL here.
loadFromCLI_l(sss, tl, optarg, nd) ==
    IF Len(optarg) >= N2N_EDGE_SN_HOST_SIZE THEN Opt(sss, tl, FALSE)
    ELSE IF ":" \notin Range(optarg) THEN Opt(sss, tl, FALSE)
    ELSE IF nd.rv < -2 THEN Opt(sss, tl, FALSE)
    ELSE Anchored(sss, tl,
                  AddSn(sss.federation.edges, supernode2sock(optarg, nd.rv),
                        nd.peer_alloc),
                  optarg, supernode2sock(optarg, nd.rv), nd)

\* snprintf(dst, size, "%s", text): at most size - 1 characters
snprintf(size, text) ==
    SubSeq(text, 1, IF Len(text) < size - 1 THEN Len(text) ELSE size - 1)

\* the name is copied without a limit
loadFromCLI_F_unbounded(sss, tl, optarg) ==
    Opt([sss EXCEPT !.federation.community = <<"*">> \o optarg,
                    !.federation.purgeable = FALSE],
        tl, TRUE)

\* case 'F'
loadFromCLI_F(sss, tl, optarg) ==
    Opt([sss EXCEPT
            !.federation.community =
                snprintf(N2N_COMMUNITY_SIZE - 1, <<"*">> \o optarg),
            !.federation.purgeable = FALSE],
        tl, TRUE)

\* str2mac: six bytes, each from two hex digits, with one character between
str2mac(s) ==
    [k \in 1..6 |-> 16 * DigitVal(s[3 * k - 2]) + DigitVal(s[3 * k - 1])]

\* the locally-assigned bit is not set
loadFromCLI_m_multicast_only(sss, tl, optarg) ==
    Opt([sss EXCEPT !.mac_addr =
            [str2mac(optarg) EXCEPT ![1] = BitAnd(@, 254, 8)]],
        tl, TRUE)

\* case 'm': mac_addr[0] &= ~0x01; mac_addr[0] |= 0x02
loadFromCLI_m(sss, tl, optarg) ==
    Opt([sss EXCEPT !.mac_addr =
            [str2mac(optarg) EXCEPT ![1] = BitOr(BitAnd(@, 254, 8), 2, 8)]],
        tl, TRUE)

\* case 'v'
loadFromCLI_v(sss, tl, optarg) == Opt(sss, tl + 1, TRUE)

\* default: n3n_config_from_getopt; of option_map, -f is modelled
\* (daemon.background = false)
loadFromCLI_f(sss, tl, optarg) == Opt([sss EXCEPT !.conf.daemon = FALSE], tl, TRUE)

\* the switch of loadFromCLI for the option c
loadFromCLI(sss, tl, c, optarg, nd) ==
    CASE c = "a" -> loadFromCLI_a(sss, tl, optarg)
      [] c = "l" -> loadFromCLI_l(sss, tl, optarg, nd)
      [] c = "F" -> loadFromCLI_F(sss, tl, optarg)
      [] c = "m" -> loadFromCLI_m(sss, tl, optarg)
      [] c = "v" -> loadFromCLI_v(sss, tl, optarg)
      [] c = "f" -> loadFromCLI_f(sss, tl, optarg)

-----------------------------------------------------------------------------
(* Startup: main                                                           *)

FEDERATION_NAME == <<"*", "F", "e", "d", "e", "r", "a", "t", "i", "o", "n">>

\* sn_init_defaults: the default pool 10.128.255.0 - 10.255.255.0/24, a
\* random MAC that is unicast and locally assigned, the federation
\* community.  The arguments are what the code at hand does not fix.
sn_init_defaults(fed_purgeable, daemon) ==
    [conf |-> [daemon |-> daemon, spoofing_protection |-> TRUE,
               community_file |-> FALSE],
     min_auto_ip_net |-> [net_addr |-> ntohl(<<10, 128, 255, 0>>), net_bitlen |-> 24],
     max_auto_ip_net |-> [net_addr |-> ntohl(<<10, 255, 255, 0>>), net_bitlen |-> 24],
     mac_addr |-> <<2, 0, 0, 0, 0, 1>>,
     federation |-> [community |-> FEDERATION_NAME, is_federation |-> TRUE,
                     purgeable |-> fed_purgeable, edges |-> <<>>],
     sock |-> NoFd, tcp_sock |-> NoFd, mgmt_slots |-> FALSE]

\* the descriptors open_socket hands out
MainFd == 100
TcpFd == 101

Running == [kind |-> "running", code |-> 0]
Exited(code) == [kind |-> "exit", code |-> code]
Aborted == [kind |-> "abort", code |-> 0]

\* what a step of main leaves: where main goes on, the runtime data, how
\* the process ended if it did, and the name of the step if it succeeded
Step(ps, sss, exit, done) == [pstate |-> ps, sss |-> sss, exit |-> exit, done |-> done]

Fail(sss, exit) ==
    Step(IF exit.kind = "abort" THEN "aborted" ELSE "exited", sss, exit, <<>>)

\* HASH_ITER(hh, sss_node.federation->edges, scan, tmp) scan->socket_fd = sss_node.sock
WithSocketFd(sss) ==
    [sss EXCEPT !.federation.edges =
        [k \in 1..Len(@) |-> [@[k] EXCEPT !.socket_fd = sss.sock]]]

\* a failure to listen on the management port is not looked at
main_listen_unchecked(ps, ok, sss, have_tcp) ==
    CASE ps = "daemon" ->
           IF ~sss.conf.daemon THEN Step("main_sock", sss, Running, <<>>)
           ELSE IF ok THEN Step("main_sock", sss, Running, <<"daemon">>)
           ELSE Fail(sss, Exited(-5))
      [] ps = "main_sock" ->
           IF ok THEN Step(IF have_tcp THEN "tcp_sock" ELSE "mgmt_slots",
                           [sss EXCEPT !.sock = MainFd], Running, <<"main_sock">>)
           ELSE Fail(sss, Exited(-2))
      [] ps = "tcp_sock" ->
           IF ok THEN Step("tcp_listen", [sss EXCEPT !.tcp_sock = TcpFd], Running,
                           <<"tcp_sock">>)
           ELSE Fail(sss, Exited(-2))
      [] ps = "tcp_listen" ->
           IF ok THEN Step("mgmt_slots", sss, Running, <<"tcp_listen">>)
           ELSE Fail(sss, Exited(-2))
      [] ps = "mgmt_slots" ->
           IF ok THEN Step("mgmt_listen", [sss EXCEPT !.mgmt_slots = TRUE], Running,
                           <<"mgmt_slots">>)
           ELSE Fail(sss, Aborted)
      [] ps = "mgmt_listen" ->
           Step("sn_init", sss, Running, IF ok THEN <<"mgmt_listen">> ELSE <<>>)
      [] ps = "sn_init" ->
           Step("run_sn_loop", WithSocketFd(sss), Running, <<"sn_init">>)
      [] ps = "run_sn_loop" ->
           Step("loop", sss, Running, <<"run_sn_loop">>)

\* main from the return of n3n_sn_config on, one step at a time: ps is the
\* step, ok whether the call of the step succeeded
main(ps, ok, sss, have_tcp) ==
    CASE ps = "daemon" ->
           IF ~sss.conf.daemon THEN Step("main_sock", sss, Running, <<>>)
           ELSE IF ok THEN Step("main_sock", sss, Running, <<"daemon">>)
           ELSE Fail(sss, Exited(-5))
      [] ps = "main_sock" ->
           IF ok THEN Step(IF have_tcp THEN "tcp_sock" ELSE "mgmt_slots",
                           [sss EXCEPT !.sock = MainFd], Running, <<"main_sock">>)
           ELSE Fail(sss, Exited(-2))
      [] ps = "tcp_sock" ->
           IF ok THEN Step("tcp_listen", [sss EXCEPT !.tcp_sock = TcpFd], Running,
                           <<"tcp_sock">>)
           ELSE Fail(sss, Exited(-2))
      [] ps = "tcp_listen" ->
           IF ok THEN Step("mgmt_slots", sss, Running, <<"tcp_listen">>)
           ELSE Fail(sss, Exited(-2))
      [] ps = "mgmt_slots" ->
           IF ok THEN Step("mgmt_listen", [sss EXCEPT !.mgmt_slots = TRUE], Running,
                           <<"mgmt_slots">>)
           ELSE Fail(sss, Aborted)
      [] ps = "mgmt_listen" ->
           IF ok THEN Step("sn_init", sss, Running, <<"mgmt_listen">>)
           ELSE Fail(sss, Exited(1))
      [] ps = "sn_init" ->
           Step("run_sn_loop", WithSocketFd(sss), Running, <<"sn_init">>)
      [] ps = "run_sn_loop" ->
           Step("loop", sss, Running, <<"run_sn_loop">>)

\* all of main done, in a build with TCP and in the foreground
RECURSIVE MainFrom(_, _)
MainFrom(ps, sss) ==
    IF ps = "loop" THEN sss ELSE MainFrom(main(ps, TRUE, sss, TRUE).pstate,
                                          main(ps, TRUE, sss, TRUE).sss)

Started(sss) == MainFrom("daemon", sss)

NoNd == [rv |-> 0, peer_alloc |-> TRUE, ip_alloc |-> TRUE]
NoOpt == [c |-> "-", optarg |-> <<>>, nd |-> NoNd, applied |-> FALSE]

StartDone ==
    [have_tcp |-> TRUE,
     steps |-> <<"main_sock", "tcp_sock", "tcp_listen", "mgmt_slots",
                 "mgmt_listen", "sn_init", "run_sn_loop">>,
     exit |-> Running, nopts |-> 0, opt |-> NoOpt]

Min(S) == CHOOSE x \in S : \A y \in S : x <= y

-----------------------------------------------------------------------------
(* The registration and forwarding engine.  Its code is not part of the    *)
(* files at hand: the definitions of this section follow the description   *)
(* of the peer table, the community table, the replay window, the          *)
(* registration steps, the forwarding rules and the sweeper.               *)

\* the all-zero MAC: unknown, not yet learned
null_mac == <<0, 0, 0, 0, 0, 0>>
broadcast_mac == <<255, 255, 255, 255, 255, 255>>

\* bit 0 of octet 0: broadcast and multicast
is_multicast(mac) == mac[1] % 2 = 1

HexDigit(d) ==
    CASE d < 10 -> Digit(d)
      [] d = 10 -> "A" [] d = 11 -> "B" [] d = 12 -> "C"
      [] d = 13 -> "D" [] d = 14 -> "E" [] d = 15 -> "F"

\* "%02X"
Hex2(n) == <<HexDigit(n \div 16), HexDigit(n % 16)>>

\* macaddr_str: six "%02X" joined by colons
macaddr_str(mac) ==
    Hex2(mac[1]) \o <<":">> \o Hex2(mac[2]) \o <<":">> \o Hex2(mac[3]) \o <<":">>
    \o Hex2(mac[4]) \o <<":">> \o Hex2(mac[5]) \o <<":">> \o Hex2(mac[6])

\* sock_to_cstr of an IPv4 socket: a.b.c.d:port
sock_to_cstr(sock) ==
    UDec(sock.addr[1]) \o <<".">> \o UDec(sock.addr[2]) \o <<".">>
    \o UDec(sock.addr[3]) \o <<".">> \o UDec(sock.addr[4]) \o <<":">>
    \o UDec(sock.port)

\* the peer as event_peer prints it (management.c: the MAC is "" when null)
PeerText(peer) ==
    [mac |-> IF peer.mac_addr = null_mac THEN <<>> ELSE macaddr_str(peer.mac_addr),
     sock |-> sock_to_cstr(peer.sock)]

\* the action of a peer event
PeerAction == [ADD |-> 0, UPDATE |-> 1, REMOVE |-> 2]

\* seconds a peer stays registered without being heard of
TTL == 2
\* seconds between two runs of the sweeper
SWEEP_INTERVAL == 1
\* nonces the replay window spans
WINDOW_SIZE == 2

(* 4.B  The peer table: the peers of a community and the index by socket  *)

EdgePeer(mac, sock, now, purgeable) ==
    [mac_addr |-> mac, sock |-> sock, last_seen |-> now, purgeable |-> purgeable,
     dev_addr |-> 0]

find_by_mac(c, mac) == {p \in c.edges : p.mac_addr = mac}

\* the reverse lookup goes through the index
find_by_sock(c, sock) ==
    {p \in c.edges : <<sock, p.mac_addr>> \in c.by_sock}

Bound(c, mac, sock) ==
    {e \in c.by_sock : e[2] # mac} \cup {<<sock, mac>>}

\* an update that leaves the entry of the prior socket in the index
add_or_update_keeps_prior_socket(c, mac, sock, now) ==
    IF find_by_mac(c, mac) # {}
    THEN [c |-> [c EXCEPT
                   !.edges = {IF p.mac_addr = mac
                              THEN [p EXCEPT !.sock = sock, !.last_seen = now]
                              ELSE p : p \in c.edges},
                   !.by_sock = @ \cup {<<sock, mac>>}],
          result |-> "Updated"]
    ELSE [c |-> [c EXCEPT !.edges = @ \cup {EdgePeer(mac, sock, now, TRUE)},
                          !.by_sock = Bound(c, mac, sock)],
          result |-> "Inserted"]

\* a peer is allocated without a look at the table
add_or_update_always_inserts(c, mac, sock, now) ==
    [c |-> [c EXCEPT !.edges = @ \cup {EdgePeer(mac, sock, now, TRUE)},
                     !.by_sock = Bound(c, mac, sock)],
     result |-> "Inserted"]

\* add_or_update(mac, sock, now): if present, refresh sock and last_seen;
\* if absent, allocate with purgeable = true
add_or_update(c, mac, sock, now) ==
    IF find_by_mac(c, mac) # {}
    THEN [c |-> [c EXCEPT
                   !.edges = {IF p.mac_addr = mac
                              THEN [p EXCEPT !.sock = sock, !.last_seen = now]
                              ELSE p : p \in c.edges},
                   !.by_sock = Bound(c, mac, sock)],
          result |-> "Updated"]
    ELSE [c |-> [c EXCEPT !.edges = @ \cup {EdgePeer(mac, sock, now, TRUE)},
                          !.by_sock = Bound(c, mac, sock)],
          result |-> "Inserted"]

Stale(p, now, ttl) == p.purgeable /\ p.last_seen + ttl < now

StaleAtTtl(p, now, ttl) == p.purgeable /\ p.last_seen + ttl <= now

Swept(c, gone) ==
    [c |-> [c EXCEPT !.edges = @ \ gone,
                     !.by_sock = {e \in @ : \A p \in gone : e[2] # p.mac_addr}],
     removed |-> gone]

\* a peer is removed as soon as last_seen + ttl = now
sweep_at_ttl(c, now, ttl) == Swept(c, {p \in c.edges : StaleAtTtl(p, now, ttl)})

\* sweep(now, ttl): remove every purgeable entry with last_seen + ttl < now
sweep(c, now, ttl) == Swept(c, {p \in c.edges : Stale(p, now, ttl)})

(* 4.C  The community table                                                *)

Community(name, federation, purgeable) ==
    [community |-> name, is_federation |-> federation, purgeable |-> purgeable,
     edges |-> {}, by_sock |-> {}]

Put(table, name, c) ==
    [n \in DOMAIN table \cup {name} |-> IF n = name THEN c ELSE table[n]]

\* get_or_create(name, dynamic): a dynamic community is refused when an
\* allowed-list file is configured and the name is not in it
get_or_create(table, conf, allowed, name) ==
    IF name \in DOMAIN table THEN [ok |-> TRUE, table |-> table]
    ELSE IF conf.community_file /\ name \notin allowed
    THEN [ok |-> FALSE, table |-> table]
    ELSE [ok |-> TRUE, table |-> Put(table, name, Community(name, FALSE, TRUE))]

\* the flags of the community are not looked at
remove_if_empty(table) ==
    [n \in {m \in DOMAIN table : table[m].edges # {}} |-> table[n]]

\* remove_if_empty_and_purgeable, for every community
remove_if_empty_and_purgeable(table) ==
    [n \in {m \in DOMAIN table : ~(table[m].purgeable /\ table[m].edges = {})}
       |-> table[n]]

FederationPeers(table) ==
    UNION {table[n].edges : n \in {m \in DOMAIN table : table[m].is_federation}}

(* 4.A  The replay window of a community with header encryption           *)

Max(S) == CHOOSE x \in S : \A y \in S : x >= y

Window(floor, seen) == [floor |-> floor, seen |-> seen]

Slid(floor, seen) == Window(floor, {m \in seen : m >= floor})

Accepted(w, n) ==
    [replay |-> FALSE,
     w |-> Slid(Max({w.floor, Max(w.seen \cup {n}) - WINDOW_SIZE + 1}),
                w.seen \cup {n})]

\* only nonces under the floor are refused
accept_floor_only(w, n) ==
    IF n < w.floor THEN [replay |-> TRUE, w |-> w] ELSE Accepted(w, n)

\* Replay if the nonce is older than the window floor or has been seen
accept(w, n) ==
    IF n < w.floor \/ n \in w.seen THEN [replay |-> TRUE, w |-> w]
    ELSE Accepted(w, n)

(* 4.E  REGISTER_SUPER                                                     *)

Datagram(to, type, community, src, dst) ==
    [to |-> to, type |-> type, community |-> community, src |-> src, dst |-> dst]

\* forward_to_federation(pkt, exclude): one datagram for each federation
\* peer other than the one the packet came from
forward_to_federation(table, type, msg) ==
    SeqOf({Datagram(p.sock, type, msg.community, msg.mac, msg.dst)
             : p \in {q \in FederationPeers(table) : q.sock # msg.sock}})

NoReplyTo == [kind |-> "none", reason |-> "-", dev_addr |-> 0]
Ack(dev_addr) == [kind |-> "REGISTER_SUPER_ACK", reason |-> "-", dev_addr |-> dev_addr]
Nak(reason) == [kind |-> "REGISTER_SUPER_NAK", reason |-> reason, dev_addr |-> 0]

Handled(table, windows, reply, events, sent, fwd) ==
    [table |-> table, windows |-> windows, reply |-> reply, events |-> events,
     sent |-> sent, fwd |-> fwd]

\* the MAC of the packet is the MAC bound to the source socket, if any
SpoofOk(c, mac, sock) == \A p \in find_by_sock(c, sock) : p.mac_addr = mac

\* the next free address of the community's subnet, as the number of the host
NextFree(c) == Min({k \in 1..(Cardinality(c.edges) + 1) :
                      \A p \in c.edges : p.dev_addr # k})

\* every registration is given the next free address
AssignedAnew(c, mac) ==
    [c EXCEPT !.edges = {IF p.mac_addr = mac
                         THEN [p EXCEPT !.dev_addr = NextFree(c)]
                         ELSE p : p \in c.edges}]

\* if the overlay IP is zero, allocate the next free address
Assigned(c, mac) ==
    [c EXCEPT !.edges = {IF p.mac_addr = mac /\ p.dev_addr = 0
                         THEN [p EXCEPT !.dev_addr = NextFree(c)]
                         ELSE p : p \in c.edges}]

ThePeer(c, mac) == CHOOSE p \in c.edges : p.mac_addr = mac

\* steps 5 and 6: the event, the ACK, the word to the federation
Acked(table, windows, c, result, msg) ==
    Handled(Put(table, msg.community, c), windows,
            Ack(ThePeer(c, msg.mac).dev_addr),
            <<[action |-> IF result = "Inserted" THEN PeerAction.ADD
                          ELSE PeerAction.UPDATE,
               peer |-> ThePeer(c, msg.mac)]>>,
            forward_to_federation(table, "REGISTER_SUPER", msg),
            "none")

\* steps 3 and 4: the anti-spoofing test and the upsert
Upserted(table, windows, conf, msg, now) ==
    IF conf.spoofing_protection
       /\ ~SpoofOk(table[msg.community], msg.mac, msg.sock)
    THEN Handled(table, windows, Nak("Spoof"), <<>>, <<>>, "none")
    ELSE Acked(table, windows,
               Assigned(add_or_update(table[msg.community], msg.mac, msg.sock,
                                      now).c, msg.mac),
               add_or_update(table[msg.community], msg.mac, msg.sock, now).result,
               msg)

\* step 2: the community
Resolved(g, windows, conf, msg, now) ==
    IF ~g.ok THEN Handled(g.table, windows, Nak("CommunityDenied"), <<>>, <<>>, "none")
    ELSE Upserted(g.table, windows, conf, msg, now)

\* REGISTER_SUPER from an edge: step 1 is the replay check of a community
\* with header encryption
register_super(table, windows, conf, allowed, msg, now) ==
    IF msg.community \notin DOMAIN windows
    THEN Resolved(get_or_create(table, conf, allowed, msg.community), windows,
                  conf, msg, now)
    ELSE IF accept(windows[msg.community], msg.nonce).replay
    THEN Handled(table, windows, NoReplyTo, <<>>, <<>>, "none")
    ELSE Resolved(get_or_create(table, conf, allowed, msg.community),
                  [windows EXCEPT ![msg.community] = accept(@, msg.nonce).w],
                  conf, msg, now)

(* 4.F  PACKET                                                             *)

Dropped(table, windows) == Handled(table, windows, NoReplyTo, <<>>, <<>>, "none")

\* to every peer of the community except the source, and to the federation
Broadcast(table, windows, c, msg) ==
    Handled(table, windows, NoReplyTo, <<>>,
            SeqOf({Datagram(p.sock, "PACKET", msg.community, msg.mac, msg.dst)
                     : p \in {q \in c.edges : q.mac_addr # msg.mac}})
            \o forward_to_federation(table, "PACKET", msg),
            "tx_sup_broadcast")

Unicast(table, windows, c, msg) ==
    Handled(table, windows, NoReplyTo, <<>>,
            <<Datagram(ThePeer(c, msg.dst).sock, "PACKET", msg.community,
                       msg.mac, msg.dst)>>,
            "sn_fwd")

ToFederation(table, windows, msg) ==
    Handled(table, windows, NoReplyTo, <<>>,
            forward_to_federation(table, "PACKET", msg), "sn_fwd")

Forwarded(table, windows, c, msg) ==
    IF is_multicast(msg.dst) \/ msg.dst = null_mac THEN Broadcast(table, windows, c, msg)
    ELSE IF find_by_mac(c, msg.dst) # {} THEN Unicast(table, windows, c, msg)
    ELSE ToFederation(table, windows, msg)

\* the source MAC is not compared with the socket
packet_unchecked(table, windows, conf, msg) ==
    IF msg.community \notin DOMAIN table THEN Dropped(table, windows)
    ELSE Forwarded(table, windows, table[msg.community], msg)

\* the broadcast goes to the source as well
BroadcastToAll(table, windows, c, msg) ==
    Handled(table, windows, NoReplyTo, <<>>,
            SeqOf({Datagram(p.sock, "PACKET", msg.community, msg.mac, msg.dst)
                     : p \in c.edges})
            \o forward_to_federation(table, "PACKET", msg),
            "tx_sup_broadcast")

packet_echoes_broadcast(table, windows, conf, msg) ==
    IF msg.community \notin DOMAIN table THEN Dropped(table, windows)
    ELSE IF conf.spoofing_protection
            /\ ~SpoofOk(table[msg.community], msg.mac, msg.sock)
    THEN Dropped(table, windows)
    ELSE IF is_multicast(msg.dst) \/ msg.dst = null_mac
    THEN BroadcastToAll(table, windows, table[msg.community], msg)
    ELSE Forwarded(table, windows, table[msg.community], msg)

\* PACKET with community C, source MAC S, destination MAC D
packet(table, windows, conf, msg) ==
    IF msg.community \notin DOMAIN table THEN Dropped(table, windows)
    ELSE IF conf.spoofing_protection
            /\ ~SpoofOk(table[msg.community], msg.mac, msg.sock)
    THEN Dropped(table, windows)
    ELSE Forwarded(table, windows, table[msg.community], msg)

(* 4.G  The sweeper                                                        *)

\* for each community and the federation, sweep the peers; then delete the
\* empty purgeable communities
sweeper(table, now) ==
    [table |-> remove_if_empty_and_purgeable(
                   [n \in DOMAIN table |-> sweep(table[n], now, TTL).c]),
     removed |-> UNION {sweep(table[n], now, TTL).removed : n \in DOMAIN table}]

-----------------------------------------------------------------------------
(* The edges, their datagrams and the engine at the entry of the loop      *)

MacA == <<2, 170, 0, 0, 0, 1>>
MacB == <<2, 187, 0, 0, 0, 2>>
MacC == <<2, 204, 0, 0, 0, 3>>
MacX == <<2, 221, 0, 0, 0, 4>>       \* registered nowhere
MacSn == <<2, 0, 0, 0, 0, 9>>        \* the anchor of the federation

SockOf(port) == [addr |-> <<203, 0, 113, 5>>, port |-> port]
S1 == SockOf(1234)
S2 == SockOf(1235)
S3 == SockOf(1236)
SnSock == [addr |-> <<198, 51, 100, 7>>, port |-> 7654]

Acme == <<"a", "c", "m", "e">>
Beta == <<"b", "e", "t", "a">>

Register(community, mac, sock, nonce) ==
    [community |-> community, mac |-> mac, dst |-> null_mac, sock |-> sock,
     nonce |-> nonce]

Frame(community, mac, dst, sock) ==
    [community |-> community, mac |-> mac, dst |-> dst, sock |-> sock, nonce |-> 0]

\* the registrations of the edges: A from two sockets, B from the second of
\* them, C in the other community
Registrations ==
    {Register(Acme, MacA, S1, 0), Register(Acme, MacA, S2, 0),
     Register(Acme, MacB, S2, 0), Register(Beta, MacC, S3, 0)}

\* the registrations of C with the nonces of header encryption, and one in
\* a community without it
EncryptedRegistrations ==
    {Register(Beta, MacC, S3, n) : n \in 0..MaxNonce}
    \cup {Register(Acme, MacA, S1, 0)}

Frames ==
    {Frame(Acme, mac, dst, sock) :
        mac \in {MacA, MacB}, sock \in {S1, S2},
        dst \in {MacA, MacB, MacX, broadcast_mac, null_mac}}
    \cup {Frame(Beta, MacC, broadcast_mac, S3)}

\* the table at the entry of the loop: the federation with its anchor and
\* the communities of the allowed-communities file
AnchorPeer == EdgePeer(MacSn, SnSock, 0, FALSE)

TableAtStart(fed, anchors, allowed) ==
    [n \in {fed.community} \cup allowed |->
        IF n = fed.community
        THEN [Community(n, TRUE, fed.purgeable) EXCEPT
                 !.edges = anchors,
                 !.by_sock = {<<p.sock, p.mac_addr>> : p \in anchors}]
        ELSE Community(n, FALSE, FALSE)]

\* no subscriber, or one: event_subscribe puts every subscriber into the
\* slot of the debug topic, whatever topic the request names
SubscriberSets ==
    { [t \in Topics |-> NoFd],
      [t \in Topics |-> IF t = N3N_EVENT_DEBUG THEN 1 ELSE NoFd] }

NotHeard ==
    [op |-> "-", msg |-> Frame(<<>>, null_mac, null_mac, SnSock),
     reply |-> NoReplyTo, sent |-> <<>>, removed |-> {}, fwd |-> "none"]

Heard(op, msg, r, removed) ==
    [op |-> op, msg |-> msg, reply |-> r.reply, sent |-> r.sent,
     removed |-> removed, fwd |-> r.fwd]

NotDumped == [read |-> {}, view |-> "-"]

\* the engine as main hands it to the loop
EngineAtStart(anchors, files, encrypted) ==
    /\ clock = 0
    /\ next_sweep = 0
    /\ comm_table = TableAtStart(sss_node.federation, anchors, files)
    /\ he_window = [n \in encrypted |-> Window(0, {})]
    /\ stats = [sn_fwd |-> 0, tx_sup_broadcast |-> 0, sn_reg_nak |-> 0]
    /\ heard = NotHeard
    /\ dumped = NotDumped
    /\ pages = PagesAtStart
    /\ hungup = {}

-----------------------------------------------------------------------------
(* The state machine                                                       *)

InitialTraceLevel == {2}

Init ==
    /\ keep_running = TRUE
    /\ called = 0
    /\ pstate = "loop"
    /\ sss_node = Started(sn_init_defaults(FALSE, FALSE))
    /\ start = StartDone
    /\ traceLevel \in InitialTraceLevel
    /\ communities \in CommunityFiles
    /\ mgmt_event_subscribers = [t \in Topics |-> NoFd]
    /\ slots = [i \in 1..NrSlots |-> NoFd]
    /\ open = {}
    /\ signals = <<>>
    /\ last = NoLast
    /\ writes = <<>>
    /\ EngineAtStart({}, {}, {})

FreeSlots == {i \in 1..NrSlots : slots[i] = NoFd}

\* slots_accept for a client that connects, the descriptors fds being the
\* ones accept() can hand out: with no empty slot the connection is not
\* taken and the table stays as it is; else it takes the first empty slot
\* and the lowest descriptor that is not open
SlotsAcceptOf(fds) ==
    /\ pstate = "loop"
    /\ UNCHANGED <<startup, engine, hungup>>
    /\ fds \ open # {}
    /\ IF FreeSlots = {}
       THEN /\ last' = Last("slots_accept", "-", "full", NoReply)
            /\ UNCHANGED <<slots, open>>
       ELSE /\ slots' = [slots EXCEPT ![Min(FreeSlots)] = Min(fds \ open)]
            /\ open' = open \cup {Min(fds \ open)}
            /\ last' = NoLast
    /\ writes' = <<>>
    /\ UNCHANGED <<keep_running, called, pstate, signals, traceLevel, communities,
                   mgmt_event_subscribers>>

SlotsAccept == SlotsAcceptOf(Fds)

\* conn_close: the connection of slot i ends (peer hangup or idle timeout)
SlotsClose(i) ==
    /\ pstate = "loop"
    /\ UNCHANGED <<startup, engine>>
    /\ slots[i] # NoFd
    /\ open' = open \ {slots[i]}
    /\ hungup' = hungup \ {slots[i]}
    /\ slots' = [slots EXCEPT ![i] = NoFd]
    /\ last' = NoLast
    /\ writes' = <<>>
    /\ UNCHANGED <<keep_running, called, pstate, signals, traceLevel, communities,
                   mgmt_event_subscribers>>

MgmtApiHandler(i, req, nd) ==
    /\ pstate = "loop"
    /\ UNCHANGED <<startup, engine>>
    /\ slots[i] # NoFd
    /\ \E r \in {mgmt_api_handler(i, req, nd)} :
           /\ keep_running' = r.kr
           /\ traceLevel' = r.tl
           /\ communities' = r.comm
           /\ mgmt_event_subscribers' = r.subs
           /\ slots' = r.slots
           /\ open' = r.open
           /\ hungup' = hungup \cap r.open
           /\ writes' = r.writes
           /\ last' = r.last
    /\ UNCHANGED <<called, pstate, signals>>

\* the forwarding engine reports a change of the peer list
PeerEvent(data0, data1, mode) ==
    /\ pstate = "loop"
    /\ UNCHANGED <<startup, engine, hungup>>
    /\ writes' = mgmt_event_post(mgmt_event_subscribers, N3N_EVENT_PEER,
                                 data0, data1, mode)
    /\ last' = Last("mgmt_event_post", "-", "-", NoReply)
    /\ UNCHANGED <<keep_running, called, pstate, signals, traceLevel, communities,
                   mgmt_event_subscribers, slots, open>>

\* SIGINT or SIGTERM is delivered
TermHandler ==
    /\ pstate = "loop"
    /\ UNCHANGED <<startup, engine, hungup>>
    /\ \E r \in {term_handler} :
           /\ called' = r.called
           /\ keep_running' = r.kr
           /\ pstate' = r.pstate
    /\ signals' = IF Len(signals) < 2 THEN Append(signals, keep_running) ELSE signals
    /\ last' = Last("term_handler", "-", "-", NoReply)
    /\ writes' = <<>>
    /\ UNCHANGED <<traceLevel, communities, mgmt_event_subscribers, slots, open>>

\* a wake of the loop finds keep_running false: run_sn_loop returns
LoopExit ==
    /\ pstate = "loop"
    /\ UNCHANGED <<startup, engine, hungup>>
    /\ ~LoopContinues
    /\ pstate' = "returned"
    /\ last' = NoLast
    /\ writes' = <<>>
    /\ UNCHANGED <<keep_running, called, signals, traceLevel, communities,
                   mgmt_event_subscribers, slots, open>>

Next ==
    \/ SlotsAccept
    \/ \E i \in 1..NrSlots : SlotsClose(i)
    \/ \E i \in 1..NrSlots, req \in Requests :
          \E nd \in ChoicesFor(req) : MgmtApiHandler(i, req, nd)
    \/ \E data0 \in PeerActions, data1 \in PeerData, mode \in SbOverflowModes :
          PeerEvent(data0, data1, mode)
    \/ TermHandler
    \/ LoopExit

Spec == Init /\ [][Next]_vars

\* the readiness timer bounds every wait, so the loop condition is looked at
\* again and again
FairSpec == Spec /\ WF_vars(LoopExit)

-----------------------------------------------------------------------------
(* Static pages sent in parts                                              *)

PageRequests ==
    { [line |-> l, sep |-> TRUE, body |-> BodyNone, auth |-> NoAuth] :
        l \in { <<"G", "E", "T", " ", "/", " ">>,
                <<"G", "E", "T", " ", "/", "s", "c", "r", "i", "p", "t", ".", "j", "s", " ">> } }

\* mgmt_api_handler for the request of a static page on the connection of
\* slot i, with the conn_write at its end taking k parts
FetchPage(i, req, k) ==
    /\ pstate = "loop"
    /\ slots[i] # NoFd
    /\ ~pages.conn[i].sending
    /\ \E r \in {mgmt_api_handler(i, req, CHOOSE nd \in ChoicesFor(req) : TRUE)} :
           /\ last' = r.last
           /\ writes' = r.writes
           /\ pages' = conn_write(WithReply(pages, i, Head(r.last.reply.body.val)),
                                  i, k)
    /\ UNCHANGED <<keep_running, called, pstate, signals, traceLevel, communities,
                   mgmt_event_subscribers, slots, open, startup, clock,
                   next_sweep, comm_table, he_window, stats, heard, dumped, hungup>>

\* the socket of slot i is writable again: the loop calls conn_write
ConnWrite(i, k) ==
    /\ pstate = "loop"
    /\ slots[i] # NoFd
    /\ pages.conn[i].sending
    /\ Len(pages.conn[i].got) < MaxSent
    /\ pages' = conn_write(pages, i, k)
    /\ last' = Last("conn_write", "-", "-", NoReply)
    /\ writes' = <<>>
    /\ UNCHANGED <<keep_running, called, pstate, signals, traceLevel, communities,
                   mgmt_event_subscribers, slots, open, startup, clock,
                   next_sweep, comm_table, he_window, stats, heard, dumped, hungup>>

PageNext ==
    \/ SlotsAccept
    \/ \E i \in 1..NrSlots, req \in PageRequests, k \in 1..PageChunks :
          FetchPage(i, req, k)
    \/ \E i \in 1..NrSlots, k \in 1..PageChunks : ConnWrite(i, k)

PageSpec == Init /\ [][PageNext]_vars

-----------------------------------------------------------------------------
(* The slot table with more clients than slots                             *)

ConnFds == 1..MaxConn

\* a subscription and a page
SlotRequests ==
    { [line |-> l, sep |-> TRUE, body |-> BodyNone, auth |-> NoAuth] :
        l \in {Line_Events(T_peer), <<"G", "E", "T", " ", "/", " ">>} }

SlotNext ==
    \/ SlotsAcceptOf(ConnFds)
    \/ \E i \in 1..NrSlots : SlotsClose(i)
    \/ \E i \in 1..NrSlots, req \in SlotRequests :
          \E nd \in ChoicesFor(req) : MgmtApiHandler(i, req, nd)

SlotSpec == Init /\ [][SlotNext]_vars

-----------------------------------------------------------------------------
(* A subscriber whose far end hangs up                                     *)

PostTestRequests ==
    {req \in Requests : req.line = Line_POST_V1 /\ req.body.method = "post.test"}

\* the peer of subscriber fd closes its end.  The descriptor has been taken
\* away from the slots, so the loop does not watch it: nothing of the
\* program changes
PeerHangup(fd) ==
    /\ pstate = "loop"
    /\ fd \in open \ hungup
    /\ \E t \in Topics : mgmt_event_subscribers[t] = fd
    /\ hungup' = hungup \cup {fd}
    /\ last' = NoLast
    /\ writes' = <<>>
    /\ UNCHANGED <<keep_running, called, pstate, signals, traceLevel, communities,
                   mgmt_event_subscribers, slots, open, startup, engine>>

HangupRequests ==
    { [line |-> Line_Events(T_peer), sep |-> TRUE, body |-> BodyNone,
       auth |-> NoAuth] }
    \cup PostTestRequests

HangupNext ==
    \/ SlotsAccept
    \/ \E i \in 1..NrSlots : SlotsClose(i)
    \/ \E i \in 1..NrSlots, req \in HangupRequests :
          \E nd \in ChoicesFor(req) : MgmtApiHandler(i, req, nd)
    \/ \E data0 \in PeerActions, data1 \in PeerData, mode \in SbOverflowModes :
          PeerEvent(data0, data1, mode)
    \/ \E fd \in Fds : PeerHangup(fd)

HangupSpec == Init /\ [][HangupNext]_vars

-----------------------------------------------------------------------------
(* Setting and reading the verbosity level                                 *)

\* one-element arrays [n], each with the level n it names and the text of n
LevelInputs ==
    { [params |-> Str(<<"[", "0", "]">>), n |-> 0, shown |-> <<"0">>],
      [params |-> Str(<<"[", "3", "]">>), n |-> 3, shown |-> <<"3">>],
      [params |-> Str(<<"[", " ", "4", "]">>), n |-> 4, shown |-> <<"4">>],
      [params |-> Str(<<"[", "1", "2", "]">>), n |-> 12, shown |-> <<"1", "2">>],
      [params |-> Str(<<"[", "1", "0", "0", "]">>), n |-> 100,
       shown |-> <<"1", "0", "0">>] }

SetVerbose(p) ==
    [line |-> Line_POST_V1, sep |-> TRUE, auth |-> NoAuth,
     body |-> [kind |-> "json", id |-> ShortId, method |-> "set_verbose",
               params |-> p]]

VerboseRequests ==
    { SetVerbose(l.params) : l \in LevelInputs }
    \cup { [line |-> Line_POST_V1, sep |-> TRUE, auth |-> NoAuth,
            body |-> [kind |-> "json", id |-> ShortId, method |-> m,
                      params |-> NullStr]] :
              m \in {"get_verbose", "get_info"} }

VerboseNext ==
    \/ SlotsAccept
    \/ \E i \in 1..NrSlots : SlotsClose(i)
    \/ \E i \in 1..NrSlots, req \in VerboseRequests :
          \E nd \in ChoicesFor(req) : MgmtApiHandler(i, req, nd)

VerboseSpec == Init /\ [][VerboseNext]_vars

-----------------------------------------------------------------------------
(* The startup state machine: from the call of loadFromCLI to the loop     *)

AutoIp(min, max, bits) == [fields |-> 3, min |-> min, max |-> max, bits |-> bits]

AutoIpArgs ==
    { AutoIp(<<10, 0, 0, 0>>, <<10, 0, 0, 0>>, 30),
      AutoIp(<<10, 0, 0, 0>>, <<10, 0, 0, 0>>, 31),
      AutoIp(<<10, 0, 0, 0>>, <<10, 0, 0, 0>>, 286),
      AutoIp(<<10, 0, 0, 0>>, <<10, 0, 0, 0>>, 0),
      AutoIp(<<10, 0, 0, 4>>, <<10, 0, 0, 0>>, 30),
      AutoIp(<<10, 0, 0, 1>>, <<10, 0, 0, 4>>, 30),
      AutoIp(<<10, 0, 0, 0>>, <<10, 0, 0, 6>>, 30),
      AutoIp(<<0, 0, 0, 0>>, <<10, 0, 0, 0>>, 8),
      AutoIp(<<10, 0, 0, 0>>, <<255, 255, 255, 255>>, 8),
      AutoIp(<<10, 0, 0, 0>>, <<10, 0, 0, 256>>, 8),
      AutoIp(<<128, 0, 0, 0>>, <<192, 0, 0, 0>>, 1),
      AutoIp(<<192, 168, 0, 0>>, <<192, 168, 255, 0>>, 24),
      [fields |-> 2, min |-> <<10, 0, 0, 0>>, max |-> <<10, 0, 0, 0>>, bits |-> 0] }

\* host:port arguments: two short ones, one of 47 characters, one of 48,
\* one without a colon
SnArgs ==
    { <<"a", ":", "1">>, <<"b", ":", "1">>,
      <<"h", ":">> \o Rep("9", N2N_EDGE_SN_HOST_SIZE - 3),
      <<"h", ":">> \o Rep("9", N2N_EDGE_SN_HOST_SIZE - 2),
      <<"a", "1">> }

SnChoices ==
    { [rv |-> rv, peer_alloc |-> TRUE, ip_alloc |-> TRUE] : rv \in Supernode2sockRvs }
    \cup { [rv |-> rv, peer_alloc |-> FALSE, ip_alloc |-> TRUE] : rv \in {0, -1} }
    \cup { [rv |-> rv, peer_alloc |-> TRUE, ip_alloc |-> FALSE] : rv \in {0, -1} }

\* federation names of several lengths; the characters show their position
FedNameLens == {0, 1, N2N_COMMUNITY_SIZE - 3, N2N_COMMUNITY_SIZE - 2, N2N_COMMUNITY_SIZE + 5}
FedName(n) == [k \in 1..n |-> Digit(k % 10)]

MacArgs ==
    { <<"0", "1", ":", "0", "0", ":", "5", "e", ":", "0", "0", ":", "0", "0", ":", "0", "1">>,
      <<"f", "f", ":", "f", "f", ":", "f", "f", ":", "f", "f", ":", "f", "f", ":", "f", "f">>,
      <<"1", "0", ":", "2", "0", ":", "3", "0", ":", "4", "0", ":", "5", "0", ":", "6", "0">>,
      <<"0", "2", ":", "0", "0", ":", "0", "0", ":", "0", "0", ":", "0", "0", ":", "0", "0">> }

\* the arguments of the option c
OptArgs(c) ==
    CASE c = "a" -> AutoIpArgs
      [] c = "l" -> SnArgs
      [] c = "F" -> {FedName(n) : n \in FedNameLens}
      [] c = "m" -> MacArgs
      [] OTHER -> {<<>>}

Options == {"a", "l", "F", "m", "v", "f"}

\* the answers of resolver and allocator that the option can meet
OptChoices(c, optarg) ==
    IF c = "l" /\ Len(optarg) < N2N_EDGE_SN_HOST_SIZE /\ ":" \in Range(optarg)
    THEN SnChoices ELSE {NoNd}

StartInit ==
    /\ keep_running = TRUE
    /\ called = 0
    /\ pstate = "config"
    /\ traceLevel \in InitialTraceLevel
    /\ communities = {}
    /\ mgmt_event_subscribers = [t \in Topics |-> NoFd]
    /\ slots = [i \in 1..NrSlots |-> NoFd]
    /\ open = {}
    /\ signals = <<>>
    /\ last = NoLast
    /\ writes = <<>>
    /\ \E fed_purgeable \in BOOLEAN, daemon \in BOOLEAN :
          sss_node = sn_init_defaults(fed_purgeable, daemon)
    /\ EngineAtStart({}, {}, {})
    /\ \E have_tcp \in BOOLEAN :
          start = [have_tcp |-> have_tcp, steps |-> <<>>, exit |-> Running,
                   nopts |-> 0, opt |-> NoOpt]

\* getopt_long hands the next option to the switch of loadFromCLI
CliOption(c, optarg, nd) ==
    /\ pstate = "config"
    /\ start.nopts < MaxOpts
    /\ \E r \in {loadFromCLI(sss_node, traceLevel, c, optarg, nd)} :
           /\ sss_node' = r.sss
           /\ traceLevel' = r.tl
           /\ start' = [start EXCEPT
                           !.nopts = @ + 1,
                           !.opt = [c |-> c, optarg |-> optarg, nd |-> nd,
                                    applied |-> r.applied]]
    /\ UNCHANGED <<pstate, mgmt>>

\* getopt_long returns -1: loadFromCLI and n3n_sn_config return to main
EndOfOptions ==
    /\ pstate = "config"
    /\ pstate' = "daemon"
    /\ start' = [start EXCEPT !.nopts = 0, !.opt = NoOpt]
    /\ UNCHANGED <<sss_node, traceLevel, mgmt>>

\* the step of main at position ps, its call succeeding or not
MainStep(ps, ok) ==
    /\ pstate = ps
    /\ \E r \in {main(ps, ok, sss_node, start.have_tcp)} :
           /\ pstate' = r.pstate
           /\ sss_node' = r.sss
           /\ start' = [start EXCEPT !.steps = @ \o r.done, !.exit = r.exit]
    /\ UNCHANGED <<traceLevel, mgmt>>

Daemon(ok) == MainStep("daemon", ok)
OpenMainSocket(ok) == MainStep("main_sock", ok)
OpenTcpSocket(ok) == MainStep("tcp_sock", ok)
ListenTcp(ok) == MainStep("tcp_listen", ok)
SlotsMalloc(ok) == MainStep("mgmt_slots", ok)
SlotsListenTcp(ok) == MainStep("mgmt_listen", ok)
SnInit == MainStep("sn_init", TRUE)
RunSnLoop == MainStep("run_sn_loop", TRUE)

StartNext ==
    \/ \E c \in Options : \E optarg \in OptArgs(c) :
          \E nd \in OptChoices(c, optarg) : CliOption(c, optarg, nd)
    \/ EndOfOptions
    \/ \E ok \in BOOLEAN : Daemon(ok)
    \/ \E ok \in BOOLEAN : OpenMainSocket(ok)
    \/ \E ok \in BOOLEAN : OpenTcpSocket(ok)
    \/ \E ok \in BOOLEAN : ListenTcp(ok)
    \/ \E ok \in BOOLEAN : SlotsMalloc(ok)
    \/ \E ok \in BOOLEAN : SlotsListenTcp(ok)
    \/ SnInit
    \/ RunSnLoop

StartSpec == StartInit /\ [][StartNext]_vars


-----------------------------------------------------------------------------
(* The engine in the loop: registrations, packets, the clock, the sweeper  *)
(* and the signals                                                         *)

\* the loop is entered with the clock at 0
LoopEntered(anchors, files, encrypted) ==
    /\ keep_running = TRUE
    /\ called = 0
    /\ pstate = "loop"
    /\ \E spoofing_protection \in BOOLEAN :
          sss_node = [Started(sn_init_defaults(FALSE, FALSE)) EXCEPT
                         !.conf.spoofing_protection = spoofing_protection,
                         !.conf.community_file = files # {}]
    /\ start = StartDone
    /\ traceLevel \in InitialTraceLevel
    /\ communities = files
    /\ mgmt_event_subscribers \in SubscriberSets
    /\ slots = [i \in 1..NrSlots |-> NoFd]
    /\ open = {mgmt_event_subscribers[t] : t \in Topics} \ {NoFd}
    /\ signals = <<>>
    /\ last = NoLast
    /\ writes = <<>>
    /\ EngineAtStart(anchors, files, encrypted)

\* the writes of mgmt_event_post for each event, in order
RECURSIVE PostAll(_, _)
PostAll(subs, events) ==
    IF events = <<>> THEN <<>>
    ELSE mgmt_event_post(subs, N3N_EVENT_PEER, Head(events).action,
                         PeerText(Head(events).peer), "truncate")
         \o PostAll(subs, Tail(events))

\* the orders in which the members of a set can come
Orders(S) ==
    {s \in [1..Cardinality(S) -> S] : \A i, j \in 1..Cardinality(S) :
                                          s[i] = s[j] => i = j}

Removals(order) == [k \in DOMAIN order |-> [action |-> PeerAction.REMOVE,
                                             peer |-> order[k]]]

Applied(r, op, msg, removed, events) ==
    /\ comm_table' = r.table
    /\ he_window' = r.windows
    /\ writes' = PostAll(mgmt_event_subscribers, events)
    /\ heard' = Heard(op, msg, r, removed)

\* a REGISTER_SUPER datagram is read from the main socket
RegisterSuper(msg) ==
    /\ pstate = "loop"
    /\ \E r \in {register_super(comm_table, he_window, sss_node.conf,
                                communities, msg, clock)} :
          Applied(r, "REGISTER_SUPER", msg, {}, r.events)
    /\ UNCHANGED <<clock, next_sweep, stats, dumped, pages, hungup, startup, keep_running, called,
                   pstate, signals, traceLevel, communities,
                   mgmt_event_subscribers, slots, open, last>>

\* a PACKET datagram is read from the main socket
Packet(msg) ==
    /\ pstate = "loop"
    /\ \E r \in {packet(comm_table, he_window, sss_node.conf, msg)} :
          /\ r.fwd # "none" => stats[r.fwd] < MaxStat
          /\ Applied(r, "PACKET", msg, {}, r.events)
          /\ stats' = IF r.fwd = "none" THEN stats
                      ELSE [stats EXCEPT ![r.fwd] = @ + 1]
    /\ UNCHANGED <<clock, next_sweep, dumped, pages, hungup, startup, keep_running, called,
                   pstate, signals, traceLevel, communities,
                   mgmt_event_subscribers, slots, open, last>>

\* a second passes
Tick ==
    /\ pstate = "loop"
    /\ clock < MaxNow
    /\ clock' = clock + 1
    /\ writes' = <<>>
    /\ heard' = [NotHeard EXCEPT !.op = "tick"]
    /\ UNCHANGED <<comm_table, he_window, next_sweep, stats, dumped, pages, hungup, startup,
                   keep_running, called, pstate, signals, traceLevel,
                   communities, mgmt_event_subscribers, slots, open, last>>

\* a wake of the loop with now >= next_sweep; the events of the removed
\* peers come in the order the sweeper meets them
Sweep ==
    /\ pstate = "loop"
    /\ clock >= next_sweep
    /\ \E r \in {sweeper(comm_table, clock)} :
          /\ comm_table' = r.table
          /\ \E order \in Orders(r.removed) :
                writes' = PostAll(mgmt_event_subscribers, Removals(order))
          /\ heard' = [NotHeard EXCEPT !.op = "sweep", !.removed = r.removed]
    /\ next_sweep' = clock + SWEEP_INTERVAL
    /\ UNCHANGED <<clock, he_window, stats, dumped, pages, hungup, startup, keep_running, called,
                   pstate, signals, traceLevel, communities,
                   mgmt_event_subscribers, slots, open, last>>

\* what dump_registrations reads: the community table and every peer table
DumpReads == {"communities", "edges"}

\* SIGHUP is delivered between two datagrams: dump_registrations walks the
\* tables and prints them
DumpRegistrations ==
    /\ pstate = "loop"
    /\ dumped' = [read |-> DumpReads, view |-> "whole"]
    /\ UNCHANGED <<pages, hungup>>
    /\ writes' = <<>>
    /\ heard' = [NotHeard EXCEPT !.op = "SIGHUP"]
    /\ UNCHANGED <<clock, comm_table, he_window, next_sweep, stats, startup,
                   keep_running, called, pstate, signals, traceLevel,
                   communities, mgmt_event_subscribers, slots, open, last>>

\* what the walk meets when the handler runs inside an update of a table:
\* the table before it, the table after it, or links that are half set
DumpViews == {"before", "after", "torn"}

\* SIGHUP is delivered while a REGISTER_SUPER changes a peer table
DumpDuringRegister(msg, view) ==
    /\ pstate = "loop"
    /\ \E r \in {register_super(comm_table, he_window, sss_node.conf,
                                communities, msg, clock)} :
          /\ r.table # comm_table
          /\ Applied(r, "REGISTER_SUPER", msg, {}, r.events)
    /\ dumped' = [read |-> DumpReads, view |-> view]
    /\ UNCHANGED <<pages, hungup>>
    /\ UNCHANGED <<clock, next_sweep, stats, startup, keep_running, called,
                   pstate, signals, traceLevel, communities,
                   mgmt_event_subscribers, slots, open, last>>

\* registrations, the clock and the sweeper
RegInit ==
    \E anchors \in {{}, {AnchorPeer}}, files \in {{}, {Beta}} :
        LoopEntered(anchors, files, {})

RegNext ==
    \/ \E msg \in Registrations : RegisterSuper(msg)
    \/ Tick
    \/ Sweep

RegSpec == RegInit /\ [][RegNext]_vars

\* registrations in a community with header encryption, and the clock
ReplayInit == LoopEntered({AnchorPeer}, {}, {Beta})

ReplayNext ==
    \/ \E msg \in EncryptedRegistrations : RegisterSuper(msg)
    \/ Tick

ReplaySpec == ReplayInit /\ [][ReplayNext]_vars

\* registrations, packets and signals, the clock standing still
FwdInit == LoopEntered({AnchorPeer}, {}, {})

FwdNext ==
    \/ \E msg \in Registrations : RegisterSuper(msg)
    \/ \E msg \in Frames : Packet(msg)
    \/ DumpRegistrations
    \/ \E msg \in Registrations, view \in DumpViews : DumpDuringRegister(msg, view)
    \/ TermHandler
    \/ LoopExit

FwdSpec == FwdInit /\ [][FwdNext]_vars

-----------------------------------------------------------------------------
(* Registrations, and the tables and counters as the API shows them        *)

StatRequests ==
    { [line |-> Line_POST_V1, sep |-> TRUE, auth |-> NoAuth,
       body |-> [kind |-> "json", id |-> ShortId, method |-> m,
                 params |-> NullStr]] :
        m \in {"get_packetstats", "get_communities"} }

StatInit == \E files \in {{}, {Beta}} : LoopEntered({AnchorPeer}, files, {})

StatNext ==
    \/ \E msg \in Registrations : RegisterSuper(msg)
    \/ SlotsAccept
    \/ \E i \in 1..NrSlots, req \in StatRequests :
          \E nd \in ChoicesFor(req) : MgmtApiHandler(i, req, nd)

StatSpec == StatInit /\ [][StatNext]_vars

-----------------------------------------------------------------------------
(* Properties                                                              *)

SlotFds == {slots[i] : i \in 1..NrSlots} \ {NoFd}
SubscriberFds == {mgmt_event_subscribers[t] : t \in Topics} \ {NoFd}

\* the data of the writes of a sequence w that went to descriptor fd
DataTo(w, fd) ==
    LET mine == SelectSeq(w, LAMBDA x : x.fd = fd)
    IN  [k \in 1..Len(mine) |-> mine[k].data]

\* C1: the first SIGINT/SIGTERM clears keep_running and leaves the process
\* running, whether keep_running was still true or had been cleared by the
\* stop method; the second ends the process at once, so there is no third.
C1_TermHandler ==
    /\ Len(signals) = 1 => (keep_running = FALSE /\ pstate # "exited")
    /\ Len(signals) = 2 => pstate = "exited"
    /\ pstate = "exited" => Len(signals) = 2

\* a second signal has ended a process whose first signal came after stop
C1_Witness ==
    /\ Len(signals) = 2
    /\ signals[1] = FALSE
    /\ pstate = "exited"

\* C2: keep_running, once false, stays false; with the loop condition
\* looked at on every wake the loop is then left; and stop answers 200 with
\* result 0 and has cleared the flag.
C2_Shutdown ==
    /\ [][keep_running = FALSE => keep_running' = FALSE]_vars
    /\ (keep_running = FALSE) ~> (pstate # "loop")
    /\ [](last.ran = "stop" =>
            /\ last.reply.status = 200
            /\ last.reply.body.kind = "result"
            /\ last.reply.body.val = <<"0">>
            /\ keep_running = FALSE)

\* the loop has been left after stop, without any signal
C2_Witness ==
    /\ pstate = "returned"
    /\ signals = << >>
    /\ keep_running = FALSE

\* C3: a topic's slot holds one socket; when a subscribe changes the
\* subscriber of a topic that had one, the old socket is closed and the new
\* one is open; no closed or replaced socket is left open unowned, and
\* everything written to subscribers goes to a current subscriber.
C3_OneSubscriber ==
    /\ [](/\ open = SlotFds \cup SubscriberFds
          /\ \A w \in {writes[k] : k \in 1..Len(writes)} : w.fd \in SubscriberFds)
    /\ [][\A t \in Topics :
            (mgmt_event_subscribers[t] # NoFd
               /\ mgmt_event_subscribers'[t] # mgmt_event_subscribers[t])
            => /\ mgmt_event_subscribers[t] \notin open'
               /\ mgmt_event_subscribers'[t] \in open'
               /\ \A k \in 1..Len(writes') :
                     writes'[k].fd = mgmt_event_subscribers'[t]]_vars

\* a subscriber has just been replaced
C3_Witness ==
    /\ last.func = "event_subscribe"
    /\ \E k \in 1..Len(writes) : writes[k].kind = "notice"
    /\ mgmt_event_subscribers[N3N_EVENT_DEBUG] \in open

\* C4: when a subscribe replaces the subscriber of a topic, the replacement
\* notice is written to the old subscriber.
C4_NoticeToOld ==
    [][\A t \in Topics :
         (mgmt_event_subscribers[t] # NoFd
            /\ mgmt_event_subscribers'[t] # mgmt_event_subscribers[t])
         => \E k \in 1..Len(writes') :
               /\ writes'[k].kind = "notice"
               /\ writes'[k].fd = mgmt_event_subscribers[t]]_vars

TopicChars(t) ==
    CASE t = N3N_EVENT_DEBUG -> T_debug
      [] t = N3N_EVENT_TEST -> T_test
      [] t = N3N_EVENT_PEER -> T_peer

EventsRequest(t) ==
    [line |-> Line_Events(TopicChars(t)), sep |-> TRUE, body |-> BodyNone,
     auth |-> NoAuth]

\* C5: GET /events/<topic> puts the connection's socket into the slot of
\* the named topic and leaves the other topics' slots as they were.
C5_NamedTopic ==
    [][\A i \in 1..NrSlots, t \in Topics :
         (/\ last'.func = "event_subscribe"
          /\ \E nd \in ChoicesFor(EventsRequest(t)) :
                MgmtApiHandler(i, EventsRequest(t), nd))
         => /\ mgmt_event_subscribers'[t] = slots[i]
            /\ \A u \in Topics \ {t} :
                  mgmt_event_subscribers'[u] = mgmt_event_subscribers[u]]_vars

\* what a post of bytes on topic t must have written, given the
\* subscribers at the time: the same bytes to the subscriber of t and to
\* the debug subscriber, nothing when there is neither
Copied(t, bytes) ==
    LET debug == mgmt_event_subscribers[N3N_EVENT_DEBUG]
        sub == mgmt_event_subscribers[t]
        sent == IF bytes = <<>> THEN <<>> ELSE <<bytes>>
    IN  /\ (sub = NoFd /\ debug = NoFd) => writes' = <<>>
        /\ debug # NoFd => DataTo(writes', debug) = sent
        /\ sub # NoFd => DataTo(writes', sub) = sent
        /\ \A k \in 1..Len(writes') : writes'[k].fd \in {sub, debug}

\* C6: an event posted on the test or peer topic is written to the debug
\* subscriber with the bytes the topic's own subscriber gets, also when the
\* topic has none; with neither subscriber nothing is written.
C6_DebugCopy ==
    [][/\ \A data0 \in PeerActions, data1 \in PeerData, mode \in SbOverflowModes :
            (last'.func = "mgmt_event_post" /\ PeerEvent(data0, data1, mode))
            => Copied(N3N_EVENT_PEER,
                      sb_printf(EventBufSize, event_peer(data0, data1), mode))
       /\ \A i \in 1..NrSlots, req \in PostTestRequests :
            \A nd \in ChoicesFor(req) :
               (last'.ran = "post.test" /\ MgmtApiHandler(i, req, nd))
               => Copied(N3N_EVENT_TEST,
                         sb_printf(EventBufSize,
                                   event_test(-1, [params |-> req.body.params]),
                                   nd.mode))]_vars

\* a peer event has been written to the debug subscriber while the peer
\* topic has no subscriber
C6_Witness ==
    /\ last.func = "mgmt_event_post"
    /\ mgmt_event_subscribers[N3N_EVENT_PEER] = NoFd
    /\ mgmt_event_subscribers[N3N_EVENT_DEBUG] # NoFd
    /\ Len(writes) = 1
    /\ writes[1].fd = mgmt_event_subscribers[N3N_EVENT_DEBUG]

\* C7: no descriptor is held by a connection slot and by a subscriber slot
\* at once, no two connection slots hold the same one, and a subscriber's
\* socket is open as long as it is the subscriber.
C7_Ownership ==
    /\ SlotFds \cap SubscriberFds = {}
    /\ \A i, j \in 1..NrSlots : (i # j /\ slots[i] # NoFd) => slots[i] # slots[j]
    /\ SubscriberFds \subseteq open

\* a subscription has just taken a socket out of the slot table while
\* another connection is held in it
C7_Witness ==
    /\ last.func = "event_subscribe"
    /\ mgmt_event_subscribers[N3N_EVENT_DEBUG] # NoFd
    /\ SlotFds # {}

\* the characters a JSON value can start with
ValueStart ==
    {"\"", "[", "{", "-", "0", "1", "2", "3", "4", "5", "6", "7", "8", "9",
     "t", "f", "n"}

\* d is RS, one JSON object, LF (as far as its outline shows)
IsJsonRecord(d) ==
    /\ Len(d) >= 4
    /\ d[1] = "RS"
    /\ d[2] = "{"
    /\ d[Len(d) - 1] = "}"
    /\ d[Len(d)] = "LF"
    /\ \A k \in 2..(Len(d) - 1) :
          (d[k] = ":" /\ d[k - 1] = "\"") => d[k + 1] \in ValueStart

\* C8: everything written to a subscriber after the header is RS, one JSON
\* object, LF.
C8_JsonTextSequence ==
    \A k \in 1..Len(writes) :
       writes[k].kind # "header" => IsJsonRecord(writes[k].data)

\* The method names of the specification
ClosedMethodSet ==
    {"get_info", "get_communities", "get_edges", "get_supernodes",
     "get_packetstats", "get_timestamps", "get_verbose", "set_verbose",
     "reload_communities", "stop", "post.test", "help", "help.events"}

\* C9: a POST /v1 whose method is none of the thirteen, or that has no body
\* or no parsable one, gets 404, runs no method and changes nothing.
C9_UnknownMethod ==
    [][(last'.func = "handle_jsonrpc" /\ last'.method \notin ClosedMethodSet)
       => /\ last'.reply.status = 404
          /\ last'.ran = "-"
          /\ writes' = <<>>
          /\ UNCHANGED <<keep_running, traceLevel, communities,
                         mgmt_event_subscribers, slots, open>>]_vars

\* a name one letter short of a method's has been answered 404
C9_Witness ==
    /\ last.func = "handle_jsonrpc"
    /\ last.method = "get_verbos"
    /\ last.reply.status = 404

BadVerboseRequests ==
    {req \in Requests :
        /\ req.line = Line_POST_V1
        /\ req.body.method = "set_verbose"
        /\ (req.body.params.isnull
              \/ req.body.params.s = <<>>
              \/ Head(req.body.params.s) # "[")}

\* C10: set_verbose without params, or with params that are no array, is
\* answered with the JSON-RPC error 400 and leaves the level as it was.
C10_SetVerboseInvalid ==
    [][\A i \in 1..NrSlots, req \in BadVerboseRequests :
         (/\ last'.ran = "set_verbose"
          /\ \E nd \in ChoicesFor(req) : MgmtApiHandler(i, req, nd))
         => /\ last'.ran = "set_verbose"
            /\ last'.reply.status = 400
            /\ last'.reply.body.kind = "error"
            /\ last'.reply.body.code = 400
            /\ traceLevel' = traceLevel]_vars

\* set_verbose has refused params that are an object
C10_Witness ==
    /\ last.ran = "set_verbose"
    /\ last.reply.body.kind = "error"
    /\ last.reply.body.code = 400
    /\ last.reply.body.val = <<"expecting array">>

-----------------------------------------------------------------------------
(* The id of a reply                                                       *)

IdRequests ==
    {req \in Requests : req.line = Line_POST_V1 /\ req.body.method = "get_verbose"}

\* C11: a successful JSON-RPC reply has status 200 and carries the id of the
\* request it answers, whatever the length of that id.
C11_IdEcho ==
    [][\A i \in 1..NrSlots, req \in IdRequests :
         (/\ last'.ran = "get_verbose"
          /\ last'.reply.body.kind = "result"
          /\ \E nd \in ChoicesFor(req) : MgmtApiHandler(i, req, nd))
         => /\ last'.reply.status = 200
            /\ last'.reply.body.id = req.body.id]_vars

-----------------------------------------------------------------------------
(* Credentials                                                             *)

UnauthenticatedRequests ==
    {req \in Requests :
        /\ req.line = Line_POST_V1
        /\ req.body.method \in MutatingMethods
        /\ req.auth # mgmt_password}

\* C12: set_verbose, reload_communities and stop change the verbosity level,
\* the community table and keep_running for an authenticated caller only.
C12_AuthRequired ==
    [][\A i \in 1..NrSlots, req \in UnauthenticatedRequests :
         (/\ last'.ran \in MutatingMethods
          /\ \E nd \in ChoicesFor(req) : MgmtApiHandler(i, req, nd))
         => UNCHANGED <<traceLevel, communities, keep_running>>]_vars

-----------------------------------------------------------------------------
(* Routing                                                                 *)

\* the entries of the table whose match the line starts with
Matching(line) ==
    {k \in 1..Len(api_endpoints) : IsPrefix(api_endpoints[k].match, line)}

\* no match of the table is the start of another, so no line starts with two
NoTwoMatch ==
    \A j, k \in 1..Len(api_endpoints) :
        j # k => ~IsPrefix(api_endpoints[j].match, api_endpoints[k].match)

RoutedAs(hits, lst) ==
    /\ hits = {} => lst.func = "render_error" /\ lst.reply.status = 404
    /\ 1 \in hits => lst.func = "handle_jsonrpc"
    /\ 2 \in hits => lst.func = "render_index_page" /\ lst.reply.status = 200
    /\ 5 \in hits => lst.func = "render_script_page" /\ lst.reply.status = 200
    /\ hits \cap {3, 4, 6} # {} =>
          lst.func = "render_todo_page" /\ lst.reply.status = 501
    /\ 7 \in hits => lst.func = "event_subscribe"
    /\ Cardinality(hits) <= 1

\* C13: a request goes to the one entry of the endpoint table its line starts
\* with: POST /v1 to the dispatcher, GET / and GET /script.js to the pages
\* (200), GET /help, /metrics and /status to 501, GET /events/ to the
\* subscription, anything else to 404; no line starts with two entries.
C13_Routing ==
    /\ NoTwoMatch
    /\ last.line # <<>> => RoutedAs(Matching(last.line), last)

\* a reserved page has been answered 501
C13_Witness ==
    /\ IsPrefix(api_endpoints[4].match, last.line)
    /\ last.func = "render_todo_page"
    /\ last.reply.status = 501

-----------------------------------------------------------------------------
(* The options of the command line                                         *)

\* the value of a dotted quad as the two halves of 32 bits
QuadValue(q) == [hi |-> q[1] * 256 + q[2], lo |-> q[3] * 256 + q[4]]

IsQuad(q) == Len(q) = 4 /\ \A k \in 1..4 : q[k] \in 0..255

\* the 32 - bits low bits of the value are 0
Aligned(v, bits) ==
    IF bits >= 16 THEN v.lo % (2 ^ (32 - bits)) = 0
    ELSE v.lo = 0 /\ v.hi % (2 ^ (16 - bits)) = 0

\* the rule for <min>-<max>/<bits>, on the option as it is written
AutoIpRule(optarg) ==
    /\ optarg.fields = 3
    /\ optarg.bits \in 1..30
    /\ IsQuad(optarg.min) /\ IsQuad(optarg.max)
    /\ optarg.min \notin {<<0, 0, 0, 0>>, <<255, 255, 255, 255>>}
    /\ optarg.max \notin {<<0, 0, 0, 0>>, <<255, 255, 255, 255>>}
    /\ ~U32Gt(QuadValue(optarg.min), QuadValue(optarg.max))
    /\ Aligned(QuadValue(optarg.min), optarg.bits)
    /\ Aligned(QuadValue(optarg.max), optarg.bits)

\* C14: -a <min>-<max>/<bits> is taken exactly when 1 <= bits <= 30,
\* min <= max, both addresses are aligned to the prefix and neither is
\* 0.0.0.0 or 255.255.255.255.
C14_AutoIpAccepted ==
    start.opt.c = "a" => (start.opt.applied <=> AutoIpRule(start.opt.optarg))

PoolOk(min, max) ==
    /\ ~U32Gt(min.net_addr, max.net_addr)
    /\ min.net_bitlen = max.net_bitlen
    /\ min.net_bitlen \in 1..30
    /\ Aligned(min.net_addr, min.net_bitlen)
    /\ Aligned(max.net_addr, max.net_bitlen)

\* C15: a refused -a leaves the pool as it was, and the pool always has
\* min <= max and one prefix length in 1..30 to which both ends are aligned.
C15_Pool ==
    /\ [](PoolOk(sss_node.min_auto_ip_net, sss_node.max_auto_ip_net))
    /\ [][(start'.opt.c = "a" /\ ~start'.opt.applied)
            => /\ sss_node'.min_auto_ip_net = sss_node.min_auto_ip_net
               /\ sss_node'.max_auto_ip_net = sss_node.max_auto_ip_net]_vars

\* a -a has been refused after another -a had replaced the default pool
C15_Witness ==
    /\ start.opt.c = "a"
    /\ ~start.opt.applied
    /\ start.nopts = 2
    /\ sss_node.min_auto_ip_net.net_bitlen # 24

MacOk(mac, given) ==
    /\ mac[1] % 2 = 0
    /\ (mac[1] \div 2) % 2 = 1
    /\ mac[1] \div 4 = given[1] \div 4
    /\ \A k \in 2..6 : mac[k] = given[k]

\* C16: after -m the MAC has bit 0 of its first octet clear and bit 1 set,
\* and its other 46 bits are those of the MAC that was given.
C16_MacBits ==
    start.opt.c = "m" => MacOk(sss_node.mac_addr, str2mac(start.opt.optarg))

\* a multicast MAC has been given
C16_Witness ==
    /\ start.opt.c = "m"
    /\ str2mac(start.opt.optarg)[1] % 2 = 1
    /\ (str2mac(start.opt.optarg)[1] \div 2) % 2 = 0
    /\ sss_node.mac_addr[1] = 2

\* C17: every peer that a -l option has put into the federation's list is
\* not purgeable and carries the host:port string of the option, up to the
\* loop.
C17_Anchors ==
    \A k \in 1..Len(sss_node.federation.edges) :
        /\ ~sss_node.federation.edges[k].purgeable
        /\ sss_node.federation.edges[k].ip_addr =
              Str(sss_node.federation.edges[k].sock.name)

InvalidSn(optarg, nd) ==
    \/ Len(optarg) >= N2N_EDGE_SN_HOST_SIZE
    \/ ":" \notin Range(optarg)
    \/ nd.rv < -2

HasAnchor(edges, optarg) ==
    \E k \in 1..Len(edges) : edges[k].ip_addr = Str(optarg) /\ ~edges[k].purgeable

AllCommunities ==
    {sss_node.federation}
    \cup {[community |-> n, is_federation |-> FALSE, purgeable |-> FALSE,
           edges |-> <<>>] : n \in communities}

FederationNamed(fed, optarg) ==
    /\ Len(fed.community) <= N2N_COMMUNITY_SIZE - 1
    /\ Len(fed.community) >= 1
    /\ fed.community = SubSeq(<<"*">> \o optarg, 1, Len(fed.community))
    /\ (Len(optarg) <= N2N_COMMUNITY_SIZE - 3 => fed.community = <<"*">> \o optarg)
    /\ ~fed.purgeable

-----------------------------------------------------------------------------
(* The order of startup                                                    *)

\* the steps of main in the order the claim gives
ExpectedSteps(daemon, have_tcp) ==
    (IF daemon THEN <<"daemon">> ELSE <<>>)
    \o <<"main_sock">>
    \o (IF have_tcp THEN <<"tcp_sock", "tcp_listen">> ELSE <<>>)
    \o <<"mgmt_slots", "mgmt_listen", "sn_init", "run_sn_loop">>

ExitOf(step) ==
    CASE step = "daemon" -> Exited(-5)
      [] step \in {"main_sock", "tcp_sock", "tcp_listen"} -> Exited(-2)
      [] step = "mgmt_slots" -> Aborted
      [] step = "mgmt_listen" -> Exited(1)
      [] OTHER -> Running

StartedInOrder(steps, expected) ==
    /\ Len(steps) <= Len(expected)
    /\ steps = SubSeq(expected, 1, Len(steps))
    /\ pstate = "loop" => steps = expected
    /\ start.exit # Running =>
          /\ Len(steps) < Len(expected)
          /\ start.exit = ExitOf(expected[Len(steps) + 1])
          /\ "sn_init" \notin Range(steps)

\* C20: the loop is entered after the main socket, the TCP socket (when
\* built in) and the management listener have been opened, in this order;
\* a failure of the main or TCP socket exits with -2, of daemon() with -5,
\* of the management listener with 1, of the slot allocation aborts, each
\* before sn_init.
C20_StartOrder ==
    StartedInOrder(start.steps, ExpectedSteps(sss_node.conf.daemon, start.have_tcp))

\* the management listener has failed
C20_Witness ==
    /\ pstate = "exited"
    /\ start.exit = Exited(1)
    /\ sss_node.sock = MainFd

-----------------------------------------------------------------------------
(* Signals and the tables                                                  *)

\* C21: a signal handler reads and writes nothing of the shared state but
\* keep_running: no handler has read the community table or a peer table,
\* and none has met a table in the middle of an update.
C21_HandlersTouchFlagOnly ==
    /\ dumped.read = {}
    /\ dumped.view \notin {"torn"}

-----------------------------------------------------------------------------
(* The sweeper                                                             *)

AllPeers(table) == UNION {table[n].edges : n \in DOMAIN table}

Expired(table, t) ==
    {p \in AllPeers(table) : p.purgeable /\ p.last_seen + TTL < t}

\* C22: a sweep removes the purgeable peers with last_seen + ttl < now and
\* no other: after it no purgeable peer has last_seen + ttl < now, a peer
\* with last_seen + ttl = now is still there, and a peer that is not
\* purgeable is never removed.
C22_Sweep ==
    /\ [](heard.op = "sweep" => Expired(comm_table, clock) = {})
    /\ [][heard'.op = "sweep" =>
            /\ heard'.removed = Expired(comm_table, clock)
            /\ AllPeers(comm_table') = AllPeers(comm_table) \ Expired(comm_table, clock)]_vars
    /\ [][\A n \in DOMAIN comm_table : \A p \in comm_table[n].edges :
            ~p.purgeable =>
               /\ n \in DOMAIN comm_table'
               /\ \E q \in comm_table'[n].edges :
                     q.mac_addr = p.mac_addr /\ ~q.purgeable]_vars

\* a sweep has removed a peer, kept one with last_seen + ttl = now and kept
\* the anchor, which was heard of longer ago
C22_Witness ==
    /\ heard.op = "sweep"
    /\ heard.removed # {}
    /\ \E p \in AllPeers(comm_table) : p.purgeable /\ p.last_seen + TTL = clock
    /\ \E p \in AllPeers(comm_table) : ~p.purgeable /\ p.last_seen + TTL < clock

Contains(s, sub) ==
    \E i \in 0..(Len(s) - Len(sub)) : SubSeq(s, i + 1, i + Len(sub)) = sub

\* the record names the action REMOVE, the MAC and the socket of the peer
RemoveEventOf(data, p) ==
    /\ Contains(data, <<"\"", "a", "c", "t", "i", "o", "n", "\"", ":", "2", ",">>)
    /\ Contains(data, <<"\"", "m", "a", "c", "a", "d", "d", "r", "\"", ":", "\"">>
                         \o macaddr_str(p.mac_addr) \o <<"\"">>)
    /\ Contains(data, <<"\"", "s", "o", "c", "k", "a", "d", "d", "r", "\"", ":", "\"">>
                         \o sock_to_cstr(p.sock) \o <<"\"">>)

\* the sockets that are sent the events of the peer topic
PeerListeners ==
    {mgmt_event_subscribers[N3N_EVENT_PEER],
     mgmt_event_subscribers[N3N_EVENT_DEBUG]} \ {NoFd}

WritesTo(fd) == {k \in DOMAIN writes : writes[k].fd = fd}

\* C23: a sweep sends one peer event with action REMOVE for each peer it
\* removes and none for a peer it keeps, and a subscriber gets each of them
\* with the MAC and the socket address of the removed peer.
C23_RemoveEvents ==
    heard.op = "sweep" =>
        \A fd \in PeerListeners :
            /\ Cardinality(WritesTo(fd)) = Cardinality(heard.removed)
            /\ \A p \in heard.removed :
                  Cardinality({k \in WritesTo(fd) :
                                 RemoveEventOf(writes[k].data, p)}) = 1

\* a sweep has removed two peers at once and kept the anchor, with a
\* subscriber listening
C23_Witness ==
    /\ heard.op = "sweep"
    /\ Cardinality(heard.removed) = 2
    /\ PeerListeners # {}
    /\ Len(writes) = 2
    /\ AllPeers(comm_table) # {}

\* C24: after any registrations, sweeps and clock steps, no two peers of a
\* community have the same MAC, and no peer was last seen later than now.
C24_UniqueMacAndSeen ==
    \A n \in DOMAIN comm_table :
        /\ \A p, q \in comm_table[n].edges : p.mac_addr = q.mac_addr => p = q
        /\ \A p \in comm_table[n].edges : p.last_seen <= clock

\* a peer has registered again, later and from another socket, next to a
\* second peer of its community that was heard earlier
C24_Witness ==
    /\ heard.op = "REGISTER_SUPER"
    /\ heard.reply.kind = "REGISTER_SUPER_ACK"
    /\ heard.msg.mac = MacA /\ heard.msg.sock = S1
    /\ clock > 0
    /\ Acme \in DOMAIN comm_table
    /\ \E p, q \in comm_table[Acme].edges :
          /\ p.mac_addr = MacA /\ p.sock = S1 /\ p.last_seen = clock
          /\ q.mac_addr = MacB /\ q.last_seen < clock
    /\ Cardinality(comm_table[Acme].edges) = 2

\* the registration repeats one that is still in force: its MAC is bound to
\* its socket in its community, and was heard within the TTL
Repeated(msg) ==
    /\ msg.community \in DOMAIN comm_table
    /\ \E p \in comm_table[msg.community].edges :
          /\ p.mac_addr = msg.mac
          /\ p.sock = msg.sock
          /\ clock <= p.last_seen + TTL

Refreshed(msg) ==
    [comm_table EXCEPT ![msg.community].edges =
        {IF p.mac_addr = msg.mac THEN [p EXCEPT !.last_seen = clock] ELSE p :
           p \in comm_table[msg.community].edges}]

\* C25: a REGISTER_SUPER that repeats an accepted one within the TTL changes
\* the last_seen of its peer and nothing else: the communities, the peers of
\* each, the socket and the overlay address of the peer stay as they were.
C25_RepeatRefreshesOnly ==
    [][heard'.op = "REGISTER_SUPER" /\ Repeated(heard'.msg) =>
           comm_table' = Refreshed(heard'.msg)]_vars

\* a registration was answered as an update of a peer that keeps the first
\* address, next to a second peer, later than the clock's start
C25_Witness ==
    /\ heard.op = "REGISTER_SUPER"
    /\ heard.msg.mac = MacA /\ heard.msg.sock = S1
    /\ heard.reply.kind = "REGISTER_SUPER_ACK"
    /\ clock > 0
    /\ Len(writes) = 1
    /\ Contains(writes[1].data, <<"\"", "a", "c", "t", "i", "o", "n", "\"", ":", "1", ",">>)
    /\ Acme \in DOMAIN comm_table
    /\ \E p, q \in comm_table[Acme].edges :
          /\ p.mac_addr = MacA /\ p.sock = S1 /\ p.dev_addr = 1
          /\ p.last_seen = clock
          /\ q.mac_addr = MacB /\ q.dev_addr = 2

\* the nonces a window has done with: the ones it has seen and the ones
\* under its floor
Spent(w) == {n \in 0..MaxNonce : n < w.floor \/ n \in w.seen}

Encrypted(msg) == msg.community \in DOMAIN he_window

\* C26: with header encryption the replay window of a community accepts a
\* nonce once: a datagram whose nonce was accepted before, or is under the
\* floor (floor - 1 among them), is a replay, changes no community and no
\* peer and is not answered; an accepted nonce is spent from then on.
C26_ReplayWindow ==
    /\ [][heard'.op = "REGISTER_SUPER" /\ Encrypted(heard'.msg)
           /\ heard'.msg.nonce \in Spent(he_window[heard'.msg.community]) =>
               /\ comm_table' = comm_table
               /\ he_window' = he_window
               /\ heard'.reply.kind # "REGISTER_SUPER_ACK"]_vars
    /\ [][heard'.op = "REGISTER_SUPER" /\ Encrypted(heard'.msg)
           /\ heard'.msg.nonce \notin Spent(he_window[heard'.msg.community]) =>
               /\ heard'.reply.kind = "REGISTER_SUPER_ACK"
               /\ heard'.msg.nonce \in Spent(he_window'[heard'.msg.community])]_vars
    /\ [][\A n \in DOMAIN he_window :
             /\ n \in DOMAIN he_window'
             /\ Spent(he_window[n]) \subseteq Spent(he_window'[n])]_vars

\* a datagram with the nonce floor - 1, which was never accepted, has been
\* refused, after the peer had registered and the window had slid
C26_Witness ==
    /\ heard.op = "REGISTER_SUPER"
    /\ heard.msg.community = Beta
    /\ heard.reply = NoReplyTo
    /\ he_window[Beta].floor > 0
    /\ heard.msg.nonce = he_window[Beta].floor - 1
    /\ he_window[Beta].seen = {MaxNonce}
    /\ \E p \in comm_table[Beta].edges : p.mac_addr = MacC /\ p.last_seen < clock

\* the same nonce has come a second time and has been refused
C26_WitnessSeen ==
    /\ heard.op = "REGISTER_SUPER"
    /\ heard.msg.community = Beta
    /\ heard.reply = NoReplyTo
    /\ heard.msg.nonce \in he_window[Beta].seen

\* the step is the handling of one PACKET datagram
PacketStep ==
    /\ heard'.op = "PACKET"
    /\ UNCHANGED <<dumped, keep_running, called, pstate, signals>>

\* the packet comes from a peer of its community, from the peer's socket
FromRegistered(msg) ==
    /\ msg.community \in DOMAIN comm_table
    /\ \E p \in comm_table[msg.community].edges :
          p.mac_addr = msg.mac /\ p.sock = msg.sock

\* the number of datagrams sent to a socket
SentTo(sent, sock) == Cardinality({k \in DOMAIN sent : sent[k].to = sock})

Sockets == {p.sock : p \in AllPeers(comm_table)}

\* the peers of the packet's community other than its source
Others(msg) == {p \in comm_table[msg.community].edges : p.mac_addr # msg.mac}

At(peers, sock) == Cardinality({p \in peers : p.sock = sock})

UnicastToOne(msg) ==
    \A d \in comm_table[msg.community].edges :
        d.mac_addr = msg.dst /\ ~is_multicast(msg.dst) =>
            /\ Len(heard'.sent) = 1
            /\ heard'.sent[1].to = d.sock
            /\ stats' = [stats EXCEPT !.sn_fwd = @ + 1]

\* the statement as it stands: a broadcast reaches the other peers of the
\* community and nobody else
C27_BroadcastStaysInCommunity ==
    [][PacketStep /\ FromRegistered(heard'.msg) =>
          /\ UnicastToOne(heard'.msg)
          /\ is_multicast(heard'.msg.dst) =>
                /\ \A sock \in Sockets :
                      SentTo(heard'.sent, sock) = At(Others(heard'.msg), sock)
                /\ stats' = [stats EXCEPT !.tx_sup_broadcast = @ + 1]]_vars

\* C27: a PACKET from a registered source S of community C to a registered
\* unicast peer D of C is sent once, to the socket of D, and sn_fwd grows by
\* one; a PACKET to a broadcast or multicast address is sent once to every
\* peer of C except S and once to every supernode of the federation, to no
\* peer of another community, and tx_sup_broadcast grows by one.
C27_Forwarding ==
    [][PacketStep /\ FromRegistered(heard'.msg) =>
          /\ UnicastToOne(heard'.msg)
          /\ is_multicast(heard'.msg.dst) =>
                /\ \A sock \in Sockets :
                      SentTo(heard'.sent, sock) =
                          At(Others(heard'.msg), sock)
                          + At(FederationPeers(comm_table), sock)
                /\ \A k \in DOMAIN heard'.sent : heard'.sent[k].to \in Sockets
                /\ stats' = [stats EXCEPT !.tx_sup_broadcast = @ + 1]]_vars

\* a broadcast of A has gone to B and to the federation anchor while a
\* peer of another community was registered
C27_Witness ==
    /\ heard.op = "PACKET"
    /\ heard.msg.mac = MacA /\ heard.msg.sock = S1
    /\ heard.msg.dst = broadcast_mac
    /\ {Acme, Beta} \subseteq DOMAIN comm_table
    /\ \E p, q \in comm_table[Acme].edges :
          /\ p.mac_addr = MacA /\ p.sock = S1
          /\ q.mac_addr = MacB /\ q.sock = S2
    /\ comm_table[Beta].edges # {}
    /\ {heard.sent[k].to : k \in DOMAIN heard.sent} = {S2, AnchorPeer.sock}
    /\ stats.tx_sup_broadcast = 1

\* a unicast packet of A has gone to B alone
C27_WitnessUnicast ==
    /\ heard.op = "PACKET"
    /\ heard.msg.mac = MacA /\ heard.msg.sock = S1
    /\ heard.msg.dst = MacB
    /\ Len(heard.sent) = 1
    /\ heard.sent[1].to = S2
    /\ stats.sn_fwd = 1

\* the socket of the packet is bound, in the packet's community, to a MAC
\* that is not the source MAC of the packet
Spoofed(msg) ==
    /\ msg.community \in DOMAIN comm_table
    /\ \E p \in comm_table[msg.community].edges :
          p.sock = msg.sock /\ p.mac_addr # msg.mac

\* C28: with spoofing protection on, a PACKET whose source MAC is not the
\* MAC bound to its socket in the community is dropped: nothing is sent to
\* a peer or to a federation supernode, and the peer tables stay as they are.
C28_SpoofedPacketDropped ==
    [][PacketStep /\ sss_node.conf.spoofing_protection /\ Spoofed(heard'.msg) =>
          /\ heard'.sent = <<>>
          /\ comm_table' = comm_table
          /\ stats' = stats]_vars

\* a packet that names B as its source has come from the socket of A and
\* has been dropped, with B registered and a federation anchor known
C28_Witness ==
    /\ heard.op = "PACKET"
    /\ sss_node.conf.spoofing_protection
    /\ heard.msg.mac = MacB /\ heard.msg.sock = S1
    /\ heard.msg.dst \in {MacA, broadcast_mac}
    /\ Acme \in DOMAIN comm_table
    /\ \E p, q \in comm_table[Acme].edges :
          /\ p.mac_addr = MacA /\ p.sock = S1
          /\ q.mac_addr = MacB /\ q.sock = S2
    /\ FederationPeers(comm_table) # {}
    /\ heard.sent = <<>>

\* the communities that are there to stay: the ones of the file and the
\* federation
Standing == communities \cup {sss_node.federation.community}

C29_WitnessFile ==
    /\ heard.op = "sweep"
    /\ \E p \in heard.removed : p.mac_addr = MacC
    /\ Beta \in communities
    /\ comm_table[Beta].edges = {}
    /\ comm_table[Beta].purgeable = FALSE

\* the sockets the MAC of the registration is bound to before the step,
\* other than the socket the registration comes from
PriorSockets(msg) ==
    IF msg.community \notin DOMAIN comm_table THEN {}
    ELSE {p.sock : p \in {q \in comm_table[msg.community].edges :
                              q.mac_addr = msg.mac /\ q.sock # msg.sock}}

Moved ==
    /\ heard'.op = "REGISTER_SUPER"
    /\ heard'.reply.kind = "REGISTER_SUPER_ACK"
    /\ PriorSockets(heard'.msg) # {}

\* C30: when a MAC registers from a second socket, whichever came first,
\* its community holds one entry for the MAC, bound to the socket of the
\* registration heard last, and the lookup by the other socket does not
\* find the peer any more; the index of sockets names the socket of every
\* peer and nothing else.
C30_LatestSocketWins ==
    /\ [][Moved =>
             /\ \E p \in comm_table'[heard'.msg.community].edges :
                   /\ find_by_mac(comm_table'[heard'.msg.community],
                                   heard'.msg.mac) = {p}
                   /\ p.sock = heard'.msg.sock
                   /\ p.last_seen = clock
                   /\ \A q \in comm_table[heard'.msg.community].edges :
                         q.mac_addr = heard'.msg.mac => q.last_seen <= p.last_seen
                   /\ find_by_sock(comm_table'[heard'.msg.community],
                                    heard'.msg.sock) \ {p}
                      = find_by_sock(comm_table[heard'.msg.community],
                                     heard'.msg.sock)
             /\ \A sock \in PriorSockets(heard'.msg) :
                   /\ \A q \in find_by_sock(comm_table'[heard'.msg.community], sock) :
                         q.mac_addr # heard'.msg.mac
                   /\ find_by_sock(comm_table'[heard'.msg.community], sock)
                      = {q \in find_by_sock(comm_table[heard'.msg.community], sock) :
                           q.mac_addr # heard'.msg.mac}]_vars
    /\ [](\A n \in DOMAIN comm_table :
             comm_table[n].by_sock
               = {<<p.sock, p.mac_addr>> : p \in comm_table[n].edges})

\* A is bound to the second socket after an update, later than the start,
\* and nobody is found at the first socket
C30_Witness ==
    /\ heard.op = "REGISTER_SUPER"
    /\ heard.reply.kind = "REGISTER_SUPER_ACK"
    /\ heard.msg.mac = MacA /\ heard.msg.sock = S2
    /\ clock > 0
    /\ Len(writes) = 1
    /\ Contains(writes[1].data, <<"\"", "a", "c", "t", "i", "o", "n", "\"", ":", "1", ",">>)
    /\ Contains(writes[1].data, sock_to_cstr(S2))
    /\ \E p \in comm_table[Acme].edges :
          /\ p.mac_addr = MacA /\ p.sock = S2 /\ p.last_seen = clock
          /\ find_by_sock(comm_table[Acme], S2) = {p}
    /\ find_by_sock(comm_table[Acme], S1) = {}

Connections == {i \in 1..NrSlots : slots[i] # NoFd}

Subscribers == {mgmt_event_subscribers[t] : t \in Topics} \ {NoFd}

\* C31: the slot table holds at most 5 connections, each an open
\* descriptor of its own that is not a subscriber; while all slots are
\* occupied no connection is added and an accept leaves every slot as it
\* is; a subscription and a close empty their slot.
C31_SlotTable ==
    /\ [](/\ Cardinality(Connections) <= 5
          /\ \A i, j \in Connections : slots[i] = slots[j] => i = j
          /\ \A i \in Connections : slots[i] \in open \ Subscribers)
    /\ [][FreeSlots = {} =>
             /\ \A i \in 1..NrSlots : slots'[i] \in {slots[i], NoFd}
             /\ open' \subseteq open]_vars
    /\ [][last'.ran = "full" =>
             /\ FreeSlots = {}
             /\ UNCHANGED <<slots, open, mgmt_event_subscribers>>]_vars

\* five connections and a subscriber: the sixth client was taken into the
\* slot that the subscription had emptied
C31_Witness ==
    /\ Cardinality(Connections) = 5
    /\ Subscribers # {}
    /\ Cardinality(open) = 6
    /\ last = NoLast

\* a client has been refused while five connections were there
C31_WitnessRefused ==
    /\ last.func = "slots_accept"
    /\ last.ran = "full"
    /\ Cardinality(Connections) = 5
    /\ Cardinality(open) = 5

\* the step is the handling of a REGISTER_SUPER that is answered with a NAK
NakStep ==
    /\ heard'.op = "REGISTER_SUPER"
    /\ heard'.reply.kind = "REGISTER_SUPER_NAK"
    /\ UNCHANGED <<slots, open, last, clock>>

\* C32: every REGISTER_SUPER_NAK that is sent adds one to sn_reg_nak, and
\* get_packetstats reports the counter as the value of "nak".
C32_NakCounted ==
    /\ [][NakStep => stats' = [stats EXCEPT !.sn_reg_nak = @ + 1]]_vars
    /\ [](last.method = "get_packetstats" /\ last.reply.status = 200 =>
             Contains(last.reply.body.val,
                      <<"\"", "n", "a", "k", "\"", ":">>
                      \o FmtU32(stats.sn_reg_nak) \o <<"}">>))

\* a NAK has been sent, and get_packetstats has reported "nak":0 after it
C32_NakUnreported ==
    ~(/\ heard.reply.kind = "REGISTER_SUPER_NAK"
      /\ last.method = "get_packetstats"
      /\ last.reply.status = 200
      /\ Contains(last.reply.body.val, <<"\"", "n", "a", "k", "\"", ":", "0", "}">>))

Count(str, sub) ==
    Cardinality({i \in 0..(Len(str) - Len(sub)) :
                   SubSeq(str, i + 1, i + Len(sub)) = sub})

\* the step is the answer to a get_communities request
CommunitiesStep ==
    /\ last'.method = "get_communities"
    /\ writes' = <<>>
    /\ UNCHANGED <<comm_table, heard, slots>>

\* the array has an entry for the community, under the name it is shown by
ShowsOnce(val, community) ==
    Count(val, <<"\"", "c", "o", "m", "m", "u", "n", "i", "t", "y", "\"", ":", "\"">>
               \o (IF community.is_federation THEN <<"-", "/", "-">>
                   ELSE community.community) \o <<"\"", ",">>) = 1

C33_WitnessOne ==
    /\ last.method = "get_communities"
    /\ DOMAIN comm_table = {FEDERATION_NAME}
    /\ Count(last.reply.body.val, <<"{">>) = 1
    /\ Count(last.reply.body.val, <<",", "]">>) = 0

\* C34: when two connections fetch a static page and their replies go out
\* in parts, one after the other's, each client has the whole page, once,
\* when its reply is done.
C34_PagesComplete ==
    \A i \in 1..NrSlots :
        pages.conn[i].reply # "-" /\ ~pages.conn[i].sending =>
            pages.conn[i].got = PageText(pages.conn[i].reply)

\* an event is posted by the step: a peer event of the engine or the test
\* event of post.test
PostStep ==
    /\ \/ last'.func = "mgmt_event_post"
       \/ last'.ran = "post.test"
    /\ UNCHANGED mgmt_event_subscribers

\* C35: a subscriber slot that holds a descriptor never goes back to -1;
\* a step changes it only by a subscribe, which puts the descriptor of its
\* connection there; and after the far end of a subscriber has hung up an
\* event that is posted is still written to that descriptor (a test event
\* whose text the buffer did not take is written to nobody).
C35_SubscriberStays ==
    /\ [][\A t \in Topics :
            mgmt_event_subscribers[t] # NoFd =>
               /\ mgmt_event_subscribers'[t] # NoFd
               /\ mgmt_event_subscribers'[t] # mgmt_event_subscribers[t]
                     => /\ last'.func = "event_subscribe"
                        /\ mgmt_event_subscribers'[t] \in {slots[i] : i \in 1..NrSlots}
                        /\ mgmt_event_subscribers[t] \notin hungup']_vars
    /\ [][\A t \in Topics :
            (PostStep /\ mgmt_event_subscribers[t] \in hungup
                      /\ t \in {N3N_EVENT_DEBUG,
                                 IF last'.func = "mgmt_event_post"
                                 THEN N3N_EVENT_PEER ELSE N3N_EVENT_TEST})
            => \/ \E k \in 1..Len(writes') :
                      writes'[k].fd = mgmt_event_subscribers[t]
               \/ last'.ran = "post.test" /\ writes' = <<>>]_vars
    /\ [](hungup \subseteq open)

\* the far end of the debug subscriber has hung up and a peer event has
\* been written to its descriptor all the same
C35_Witness ==
    /\ mgmt_event_subscribers[N3N_EVENT_DEBUG] \in hungup
    /\ last.func = "mgmt_event_post"
    /\ WritesTo(mgmt_event_subscribers[N3N_EVENT_DEBUG]) # {}

\* a hung-up subscriber has been replaced by another subscribe
C35_WitnessReplaced ==
    /\ last.func = "event_subscribe"
    /\ mgmt_event_subscribers[N3N_EVENT_DEBUG] # NoFd
    /\ mgmt_event_subscribers[N3N_EVENT_DEBUG] \notin hungup
    /\ Len(writes) = 2

ResultIs(reply, text) ==
    /\ reply.status = 200
    /\ reply.body.kind = "result"
    /\ reply.body.val = text

C36_WitnessSet ==
    /\ last.ran = "set_verbose"
    /\ traceLevel = 100
    /\ last.reply.body.val = <<"1", "0", "0">>

====
